---- MODULE Spec2Model ----
(***************************************************************************)
(* RAR ITP checker: the fetch pipeline of sensor.py                        *)
(* (solve_captcha_with_local_api, _build_form_data_from_page, fetch_itp,   *)
(* async_setup_entry) as a state machine.                                  *)
(*                                                                         *)
(* Text is modelled as a sequence of one-symbol strings, so that strip,    *)
(* re.sub, re.fullmatch, slicing and f-string concatenation are computed   *)
(* as the code computes them.                                              *)
(***************************************************************************)
EXTENDS Integers, Sequences, FiniteSets, TLC

VARIABLES
    \* ---- solve_captcha_with_local_api called on its own (SpecOcr)
    ocr_in,              \* the OCR endpoint's answer to the upload
    ocr_out,             \* what the call did: NotCalled, or its outcome
    \* ---- one fetch_itp(vin) call (Spec)
    vin,                 \* the argument
    pc,                  \* position of the coroutine
    attempt,             \* loop variable of `for attempt in range(1, 4)`
    soup,                \* page parsed in the current attempt
    captcha_content,     \* image downloaded in the current attempt
    ocr_resp,            \* answer of the OCR endpoint in the current attempt
    clean_captcha,       \* the code fetch_itp validated
    post_url,            \* where the form of the current attempt is posted
    form_data,           \* the fields posted in the current attempt
    result_text,         \* body of the last POST response read
    outcome,             \* the record returned or the exception raised
    parsed,              \* what the result parser was run on
    calls,               \* number of page GETs, image GETs, OCR calls, POSTs, sleeps
    posts,               \* the POSTs issued, in order
    hist,                \* how each finished attempt ended, in order
    fetched_in,          \* the attempt in which soup, captcha_content, ocr_resp were got
    \* ---- the pure functions called on their own (SpecParse, SpecForm, SpecEndpoint)
    parse_in,            \* a result page
    parse_out,           \* the record parsed from it
    form_in,             \* a landing page, a VIN and a CAPTCHA code
    form_out,            \* what _build_form_data_from_page made of them
    cfg_in,              \* the tesseract_ip of a config entry: options and data
    cfg_out,             \* the endpoint set up and the URL requested
    \* ---- Home Assistant's side: one scheduled update, the entries and the service
    upd,                 \* async_update_data: its position, its fetch_itp calls
    hass,                \* hass.data[DOMAIN], the check_now service, the refreshes
    \* ---- two config entries (SpecSetup)
    LOCAL_OCR_API_URL,   \* the module-level global of sensor.py
    entry,               \* per VIN: position of its setup / update
    ocr_calls            \* the OCR calls made: <<vin, url used>>

ocrVars   == <<ocr_in, ocr_out>>
fetchVars == <<vin, pc, attempt, soup, captcha_content, ocr_resp, clean_captcha,
               post_url, form_data, result_text, outcome, parsed, calls, posts, hist,
               fetched_in>>
fnVars    == <<parse_in, parse_out, form_in, form_out, cfg_in, cfg_out>>
haVars    == <<upd, hass>>
setupVars == <<LOCAL_OCR_API_URL, entry, ocr_calls>>
vars      == <<ocr_in, ocr_out, vin, pc, attempt, soup, captcha_content, ocr_resp,
               clean_captcha, post_url, form_data, result_text, outcome, parsed,
               calls, posts, hist, fetched_in,
               parse_in, parse_out, form_in, form_out, cfg_in, cfg_out, upd, hass,
               LOCAL_OCR_API_URL, entry, ocr_calls>>

-----------------------------------------------------------------------------
(* Bounds of the model *)

\* longest `text` field of an OCR answer that is enumerated
MaxLen == 7
\* length of the long error body of a non-200 OCR answer
LongBodyLen == 201
\* most words in the results container of a result page that is enumerated
MaxInside == 2
\* most <input> elements in a form that is enumerated
MaxInputs == 3
\* most symbols after the scheme of a tesseract_ip value that is enumerated
MaxRest == 2
\* most symbols after the start of a form action that is enumerated
MaxAction == 3

-----------------------------------------------------------------------------
(* Text helpers *)

Min(a, b) == IF a <= b THEN a ELSE b

\* s[:n]
Take(s, n) == SubSeq(s, 1, Min(n, Len(s)))

\* sub in s (contiguous)
Contains(s, sub) ==
    \E i \in 0..(Len(s) - Len(sub)) : SubSeq(s, i + 1, i + Len(sub)) = sub

\* s.startswith(pre)
StartsWith(s, pre) == Len(s) >= Len(pre) /\ SubSeq(s, 1, Len(pre)) = pre

Digits     == {"1", "2"}
Whitespace == {" "}
Chars      == Digits \cup Whitespace \cup {"x"}

\* \d of the re module
IsDigit(c) == c \in Digits

RECURSIVE LStrip(_)
LStrip(s) == IF s # <<>> /\ Head(s) \in Whitespace THEN LStrip(Tail(s)) ELSE s

RECURSIVE RStrip(_)
RStrip(s) ==
    IF s # <<>> /\ s[Len(s)] \in Whitespace THEN RStrip(SubSeq(s, 1, Len(s) - 1)) ELSE s

\* str.strip()
Strip(s) == RStrip(LStrip(s))

\* re.sub(r"\D", "", s)
StripNonDigits(s) == SelectSeq(s, IsDigit)

\* the pattern with its lower bound lost: \d{0,hi}
FullMatchDigitsNoMin(s, lo, hi) ==
    /\ Len(s) <= hi
    /\ \A i \in 1..Len(s) : IsDigit(s[i])
\* re.fullmatch(r"\d{lo,hi}", s)
FullMatchDigits(s, lo, hi) ==
    /\ Len(s) >= lo
    /\ Len(s) <= hi
    /\ \A i \in 1..Len(s) : IsDigit(s[i])

HTTP_OK == 200

\* the decimal text of a status code, as an f-string prints it
StatusStr(s) ==
    CASE s = 200 -> "200"
      [] s = 404 -> "404"
      [] s = 500 -> "500"
      [] OTHER   -> "???"

-----------------------------------------------------------------------------
(* solve_captcha_with_local_api *)

\* digits the portal's CAPTCHA has; the OCR client cuts longer answers to it
CAPTCHA_LEN == 4
\* re.fullmatch(r"\d{1,6}", digits_only)
OCR_MIN_DIGITS == 1
OCR_MAX_DIGITS == 6
\* text[:200] of a non-200 answer
OCR_BODY_TRUNC == 200

Returned(v) == [ok |-> TRUE, value |-> v, type |-> "none", msg |-> <<>>, cause |-> <<>>]
Raised(t, m, c) == [ok |-> FALSE, value |-> <<>>, type |-> t, msg |-> m, cause |-> c]

\* An answer of the OCR endpoint:
\*   kind "timeout"  the request timed out (asyncio.TimeoutError)
\*   kind "connerr"  the connection failed (aiohttp.ClientError)
\*   kind "badjson"  a 200 answer whose body is no JSON
\*   kind "http"     an answer with a status; `text` is the JSON text field
\*                   ("" when the key is missing), `body` the raw body
OcrAnswer(k, s, t, b) == [kind |-> k, status |-> s, text |-> t, body |-> b]

\* str(e) of the exceptions aiohttp raises
ExcText(kind) ==
    CASE kind = "timeout" -> <<>>
      [] kind = "connerr" -> <<"Cannot connect to host">>
      [] kind = "badjson" -> <<"Attempt to decode JSON with unexpected mimetype">>
      [] OTHER            -> <<"error">>

\* msg = f"OCR API HTTP {resp.status}: {text[:200]}"
OcrHttpErrorMsg(resp) ==
    <<"OCR API HTTP ", StatusStr(resp.status), ": ">> \o Take(resp.body, OCR_BODY_TRUNC)

\* if len(digits_only) >= 4: digits_only = digits_only[:4]
TruncatedKeepingLast(d) ==
    IF Len(d) >= CAPTCHA_LEN THEN SubSeq(d, Len(d) - CAPTCHA_LEN + 1, Len(d)) ELSE d
Truncated(d) == IF Len(d) >= CAPTCHA_LEN THEN Take(d, CAPTCHA_LEN) ELSE d

\* if not raw_text
RawTextEmpty(raw) == raw = <<>>

\* the body of `async with session.post(url, data=form) as resp` with its
\* `except asyncio.TimeoutError`
SolveInner(resp) ==
    IF resp.kind = "timeout"
    THEN Raised("OCRAPIError", <<"OCR API timeout">>, <<>>)
    ELSE IF resp.kind = "connerr"
    THEN Raised("ClientError", ExcText("connerr"), <<>>)
    ELSE IF resp.status # HTTP_OK
    THEN Raised("OCRAPIError", OcrHttpErrorMsg(resp), <<>>)
    ELSE IF resp.kind = "badjson"
    THEN Raised("ContentTypeError", ExcText("badjson"), <<>>)
    ELSE
        LET raw_text    == Strip(resp.text)
            digits_only == StripNonDigits(raw_text)
        IN  IF RawTextEmpty(raw_text)
            THEN Raised("OCRAPIError", <<"OCR API returned empty text">>, <<>>)
            ELSE IF ~FullMatchDigits(digits_only, OCR_MIN_DIGITS, OCR_MAX_DIGITS)
            THEN Raised("OCRAPIError",
                        <<"Invalid CAPTCHA format from OCR API: raw=">> \o raw_text
                            \o <<", digits=">> \o digits_only,
                        <<>>)
            ELSE Returned(Truncated(digits_only))

\* the outer `except Exception as e: raise OCRAPIError("OCR processing failed") from e`
solve_captcha_with_local_api(resp) ==
    LET r == SolveInner(resp)
    IN  IF r.ok THEN r
        ELSE Raised("OCRAPIError", <<"OCR processing failed">>, r.msg)

-----------------------------------------------------------------------------
(* const.py *)

\* URLs are sequences of symbols: "http" is the four letters the code tests
\* with startswith("http"), "/", "#" and "?" the separators it looks for.
PORTAL_HOST == <<"http", "s", ":", "/", "/", "prog.rarom.ro">>
BASE_URL    == PORTAL_HOST \o <<"/", "rarpol", "/", "rarpol.asp">>
OCR_PATH    == <<":", "8000", "/", "ocr", "/", "file", "?", "lang=eng">>
DEFAULT_LOCAL_OCR_API_URL == <<"http", ":", "/", "/", "127.0.0.1">> \o OCR_PATH

-----------------------------------------------------------------------------
(* _build_form_data_from_page *)

\* A page is [img, src, forms]: img is "ok", "none" (no <img id="imgVerf">) or
\* "nosrc" (the img has no src); forms is the page's <form> elements in
\* document order, each [name, action, inputs], inputs a sequence of
\* [name, value] with name "" for an input without a name.
Page(img, src, forms) == [img |-> img, src |-> src, forms |-> forms]
Form(name, action, inputs) == [name |-> name, action |-> action, inputs |-> inputs]
Input(name, value) == [name |-> name, value |-> value]

\* str.upper() on the letters a VIN is written with
UpperChar(c) ==
    CASE c = "w" -> "W"
      [] c = "v" -> "V"
      [] OTHER   -> c
\* the VIN as it was given
UpperUnchanged(s) == s
\* str.upper()
Upper(s) == [i \in 1..Len(s) |-> UpperChar(s[i])]

EmptyDict == [k \in {} |-> <<>>]
\* d[k] = v
Put(d, k, v) == [x \in (DOMAIN d) \cup {k} |-> IF x = k THEN v ELSE d[x]]

\* soup.find("form", attrs={"name": "frm"}) or soup.find("form")
FindForm(page) ==
    LET named == {i \in 1..Len(page.forms) : page.forms[i].name = "frm"}
    IN  IF named # {}
        THEN <<page.forms[CHOOSE i \in named : \A j \in named : i <= j]>>
        ELSE IF page.forms # <<>> THEN <<page.forms[1]>> ELSE <<>>

\* action.split("#", 1)[0]
RECURSIVE BeforeHash(_)
BeforeHash(a) ==
    IF a = <<>> \/ Head(a) = "#" THEN <<>> ELSE <<Head(a)>> \o BeforeHash(Tail(a))

\* BASE_URL.rsplit("/", 1)[0]
RECURSIVE RSplitSlashHead(_)
RSplitSlashHead(u) ==
    IF u = <<>> THEN <<>>
    ELSE IF u[Len(u)] = "/" THEN SubSeq(u, 1, Len(u) - 1)
    ELSE RSplitSlashHead(SubSeq(u, 1, Len(u) - 1))

\* lines 160-177
PostUrl(action) ==
    IF StartsWith(action, <<"http">>)
    THEN action
    ELSE LET action_clean == IF \E i \in 1..Len(action) : action[i] = "#"
                             THEN BeforeHash(action) ELSE action
         IN  IF action_clean # <<>>
             THEN IF StartsWith(action_clean, <<"/">>)
                  THEN PORTAL_HOST \o action_clean
                  ELSE RSplitSlashHead(BASE_URL) \o <<"/">> \o action_clean
             ELSE BASE_URL

\* for inp in inputs: ... form_data[name] = value
RECURSIVE CollectInputs(_, _)
CollectInputs(inputs, data) ==
    IF inputs = <<>> THEN data
    ELSE LET inp == Head(inputs)
         IN  CollectInputs(Tail(inputs),
                           IF inp.name = "" THEN data
                           ELSE Put(data, inp.name, inp.value))

\* lines 195-203
SetCaptchaField(data, captcha_code) ==
    IF "verif_cod" \in DOMAIN data
    THEN Put(data, "verif_cod", captcha_code)
    ELSE IF "antirobot" \in DOMAIN data
    THEN Put(data, "antirobot", captcha_code)
    ELSE Put(data, "verif_cod", captcha_code)

\* the default label of the submit button ("Cauta" with a breve in the source)
SUBMIT_LABEL == <<"C", "a", "u", "t", "a">>

\* the label put on the submit button whatever its value
SetSubmitAlways(data) ==
    IF "trimite" \in DOMAIN data THEN Put(data, "trimite", SUBMIT_LABEL) ELSE data
\* lines 205-207
SetSubmit(data) ==
    IF "trimite" \in DOMAIN data /\ data["trimite"] = <<>>
    THEN Put(data, "trimite", SUBMIT_LABEL)
    ELSE data

Built(url, fd) == [ok |-> TRUE, post_url |-> url, form_data |-> fd, msg |-> <<>>]
BuildFailed(m) == [ok |-> FALSE, post_url |-> <<>>, form_data |-> EmptyDict, msg |-> m]

\* the whole function: (post_url, form_data), or UpdateFailed
build_form_data_from_page(page, v, captcha_code) ==
    LET found == FindForm(page)
    IN  IF found = <<>>
        THEN BuildFailed(<<"Unable to find form element on RAR page">>)
        ELSE LET form_el == found[1]
                 fd0 == CollectInputs(form_el.inputs, EmptyDict)
                 fd1 == Put(fd0, "nr_id", Upper(v))
                 fd2 == SetCaptchaField(fd1, captcha_code)
             IN  Built(PostUrl(form_el.action), SetSubmit(fd2))

-----------------------------------------------------------------------------
(* The result page and its parser (fetch_itp, lines 349-396) *)

\* A result page is [div, outside, inside]: div says whether the page has a
\* <div id="rezbgcolor">, inside is the text in it, outside the text before it.
\* Text is a sequence of words: a phrase [s], or a date-like token [sep, parts]
\* such as 5-mar-2026 = ["-", <<"5", "mar", "2026">>] with each part a sequence
\* of symbols.  A word with el = TRUE is the first word of an element of its
\* own (<td> word ... </td>); a word with el = FALSE goes on in the text node
\* of the word before it.  Romanian diacritics are written without their marks.
Word(s) == [s |-> s, sep |-> "", parts |-> <<>>, el |-> TRUE]
DateWord(sep, parts) == [s |-> "", sep |-> sep, parts |-> parts, el |-> TRUE]
\* the same word, in the text node of the word before it
SameNode(w) == [w EXCEPT !.el = FALSE]
Body(div, outside, inside) == [div |-> div, outside |-> outside, inside |-> inside]

REJECT_PHRASE == "codul de verificare a fost copiat incorect"
NO_RECORD     == "nu a fost gasita nicio inregistrare"
VALID_UNTIL   == "valabila pana la"
DATA_EXP      == "Data expirarii"

\* str.lower() on the phrases and abbreviations the pages are written with
LowerStr(s) ==
    CASE s = "Codul de verificare a fost copiat incorect" -> REJECT_PHRASE
      [] s = "CODUL DE VERIFICARE A FOST COPIAT INCORECT" -> REJECT_PHRASE
      [] s = "Nu a fost gasita nicio inregistrare"        -> NO_RECORD
      [] s = "Valabila pana la"                           -> VALID_UNTIL
      [] s = "Data expirarii"                             -> "data expirarii"
      [] s = "DATA EXPIRARII"                             -> "data expirarii"
      [] s = "Mar"                                        -> "mar"
      [] s = "MAR"                                        -> "mar"
      [] OTHER                                            -> s

LowerWord(w) ==
    [s |-> LowerStr(w.s), sep |-> w.sep, el |-> w.el,
     parts |-> [i \in 1..Len(w.parts) |->
                   [j \in 1..Len(w.parts[i]) |-> LowerStr(w.parts[i][j])]]]

\* text.lower()
Lower(text) == [i \in 1..Len(text) |-> LowerWord(text[i])]

\* phrase in text
HasPhrase(text, phrase) == \E i \in 1..Len(text) : text[i].s = phrase

\* the tags that stand between two elements, as they read in the raw HTML; the
\* pages are written with white space between a tag and the text next to it
TAG == Word("</td><td>")

\* the raw HTML of a text: its words, and the tags where an element starts
RECURSIVE Markup(_)
Markup(text) ==
    IF text = <<>> THEN <<>>
    ELSE (IF Head(text).el THEN <<TAG>> ELSE <<>>) \o <<Head(text)>> \o Markup(Tail(text))

\* the raw HTML of a page (result_text)
RawText(body) == Markup(body.outside \o body.inside)

\* the phrase looked for in the page as sent, without lower-casing it
IsRejectedCaseSensitive(text) == HasPhrase(RawText(text), REJECT_PHRASE)
\* "codul de verificare a fost copiat incorect" in result_text.lower()
IsRejected(text) == HasPhrase(Lower(RawText(text)), REJECT_PHRASE)

MONTH_MAP(m) ==
    CASE m = <<"ian">>  -> <<"0", "1">>
      [] m = <<"feb">>  -> <<"0", "2">>
      [] m = <<"mar">>  -> <<"0", "3">>
      [] m = <<"apr">>  -> <<"0", "4">>
      [] m = <<"mai">>  -> <<"0", "5">>
      [] m = <<"iun">>  -> <<"0", "6">>
      [] m = <<"iul">>  -> <<"0", "7">>
      [] m = <<"aug">>  -> <<"0", "8">>
      [] m = <<"sept">> -> <<"0", "9">>
      [] m = <<"oct">>  -> <<"1", "0">>
      [] m = <<"nov">>  -> <<"1", "1">>
      [] m = <<"dec">>  -> <<"1", "2">>
      [] OTHER          -> <<"0", "1">>

\* the day as written, not padded
ZFill2NoPad(d) == d
\* day.zfill(2)
ZFill2(d) == IF Len(d) < 2 THEN [i \in 1..(2 - Len(d)) |-> "0"] \o d ELSE d

UNKNOWN == <<"Unknown">>

\* sep.join(parts)
RECURSIVE Join(_, _)
Join(parts, sep) ==
    IF parts = <<>> THEN <<>>
    ELSE IF Len(parts) = 1 THEN parts[1]
    ELSE parts[1] \o <<sep>> \o Join(Tail(parts), sep)

\* s.split(sep)
RECURSIVE SplitOn(_, _)
SplitOn(s, sep) ==
    IF s = <<>> THEN << <<>> >>
    ELSE LET rest == SplitOn(Tail(s), sep)
         IN  IF Head(s) = sep THEN << <<>> >> \o rest
             ELSE << <<Head(s)>> \o Head(rest) >> \o Tail(rest)

\* s.strip(".")
RECURSIVE StripDots(_)
StripDots(s) ==
    IF s # <<>> /\ Head(s) = "." THEN StripDots(Tail(s))
    ELSE IF s # <<>> /\ s[Len(s)] = "." THEN StripDots(SubSeq(s, 1, Len(s) - 1))
    ELSE s

\* the symbols a word is written with
WordText(w) == IF w.parts = <<>> THEN <<w.s>> ELSE Join(w.parts, w.sep)

\* text.split(phrase, 1)[1].split(): the words after the first occurrence of a phrase
AfterPhrase(text, phrase) ==
    LET at == {i \in 1..Len(text) : text[i].s = phrase}
        first == CHOOSE i \in at : \A j \in at : i <= j
    IN  SubSeq(text, first + 1, Len(text))

\* what a try block ends with: a date, or an exception raised in it
Parsed(date) == [raised |-> FALSE, date |-> date]
ParseRaised  == [raised |-> TRUE, date |-> <<>>]

\* lines 368-374, the body of the try block
TryNewFormat(lower) ==
    LET fragment == AfterPhrase(lower, VALID_UNTIL)
    IN  IF fragment = <<>> THEN ParseRaised
        ELSE LET raw_date == StripDots(WordText(fragment[1]))
                 dmy      == SplitOn(raw_date, "-")
             IN  IF Len(dmy) # 3 THEN ParseRaised
                 ELSE Parsed(dmy[3] \o <<"-">> \o MONTH_MAP(dmy[2])
                                 \o <<"-">> \o ZFill2(dmy[1]))

\* the date of the try block, whatever it ended with
DateOrRaised(r, expiration_date) == r.date
\* the date stays "Unknown" when the try block raised (lines 375-376, 388-389)
DateOr(r, expiration_date) == IF r.raised THEN expiration_date ELSE r.date

\* lines 366-376
NewFormatDate(lower) == DateOr(TryNewFormat(lower), UNKNOWN)

\* The text nodes of a page: word i starts one when it starts an element, the
\* page, or the div.
StartsNode(body, i) ==
    \/ i = 1
    \/ (body.outside \o body.inside)[i].el
    \/ body.div /\ i = Len(body.outside) + 1

\* the last word of the text node word i is in
NodeEnd(body, i) ==
    LET doc == body.outside \o body.inside
    IN  CHOOSE j \in i..Len(doc) :
            /\ \A k \in (i + 1)..j : ~StartsNode(body, k)
            /\ j = Len(doc) \/ StartsNode(body, j + 1)

\* get_text(strip=True) of the words a..b: the words of a text node are a space
\* apart, the text nodes are joined with nothing between them
RECURSIVE GetText(_, _, _)
GetText(body, a, b) ==
    LET doc == body.outside \o body.inside
    IN  IF a > b THEN <<>>
        ELSE IF a = b THEN WordText(doc[a])
        ELSE WordText(doc[a])
                 \o (IF StartsNode(body, a + 1) THEN <<>> ELSE <<" ">>)
                 \o GetText(body, a + 1, b)

\* the day and the month padded to two digits
LegacyComposePadded(day, month, year) ==
    year \o <<"-">> \o ZFill2(month) \o <<"-">> \o ZFill2(day)
\* f"{year}-{month}-{day}" (line 387)
LegacyCompose(day, month, year) == year \o <<"-">> \o month \o <<"-">> \o day

\* lines 380-387, the body of the try block.  The node is looked for in the
\* whole document as sent; find_next() is the element after it: the div when
\* the node is the last one before it, no element after the last node.
TryLegacy(body) ==
    LET doc   == body.outside \o body.inside
        found == {i \in 1..Len(doc) : doc[i].s = DATA_EXP}
    IN  IF found = {} THEN Parsed(UNKNOWN)
        ELSE LET first == CHOOSE i \in found : \A j \in found : i <= j
                 last  == NodeEnd(body, first)
             IN  IF last = Len(doc) THEN ParseRaised
                 ELSE LET raw == IF body.div /\ last = Len(body.outside)
                                 THEN GetText(body, last + 1, Len(doc))
                                 ELSE GetText(body, last + 1, NodeEnd(body, last + 1))
                          dmy == SplitOn(raw, ".")
                      IN  IF Len(dmy) # 3 THEN ParseRaised
                          ELSE Parsed(LegacyCompose(dmy[1], dmy[2], dmy[3]))

\* lines 378-389
LegacyDate(body) == DateOr(TryLegacy(body), UNKNOWN)

\* the whole page parsed, whether or not it has the container
ContentTextWholePage(body) == RawText(body)
\* lines 351-356: the text of div#rezbgcolor, the raw page when there is none
ContentText(body) == IF body.div THEN body.inside ELSE RawText(body)

Record(v, status, date) == [vin |-> v, status |-> status, expiration_date |-> date]

\* lines 349-396
ParseResult(v, body) ==
    LET content_text == ContentText(body)
        lower == Lower(content_text)
    IN  IF HasPhrase(lower, NO_RECORD)
        THEN Record(v, "Not Found", UNKNOWN)
        ELSE IF HasPhrase(lower, VALID_UNTIL)
        THEN Record(v, "Valid", NewFormatDate(lower))
        ELSE IF HasPhrase(lower, "data expirarii")
        THEN Record(v, "Valid", LegacyDate(body))
        ELSE Record(v, "Valid", UNKNOWN)

-----------------------------------------------------------------------------
(* What the portal and the OCR endpoint may answer *)

LongBody == [i \in 1..LongBodyLen |-> "e"]

NoAnswer == OcrAnswer("none", 0, <<>>, <<>>)

\* the answers tried in a fetch_itp call
FetchOcrAnswers ==
    { OcrAnswer("timeout", 0, <<>>, <<>>),
      OcrAnswer("connerr", 0, <<>>, <<>>),
      OcrAnswer("http", 500, <<>>, LongBody),
      OcrAnswer("http", 200, <<>>, <<>>),
      OcrAnswer("http", 200, <<"1", "2">>, <<>>),
      OcrAnswer("http", 200, <<"1", "2", "2", "1">>, <<>>),
      OcrAnswer("http", 200, <<" ", "2", "x", "1", "1", "2", "1">>, <<>>),
      OcrAnswer("http", 200, <<"1", "2", "1", "2", "1", "2", "1">>, <<>>) }

Vins == { <<"w", "v", "1">>, <<"W", "V", "1">> }

StdInputs ==
    << Input("nr_id", <<>>), Input("verif_cod", <<>>), Input("", <<"x">>),
       Input("trimite", <<>>) >>
OldInputs ==
    << Input("nr_id", <<"o", "l", "d">>), Input("antirobot", <<"9">>),
       Input("hid", <<"t">>) >>

NoPage     == Page("none", <<>>, <<>>)
PageStd    == Page("ok", <<"captcha.asp">>, <<Form("frm", <<>>, StdInputs)>>)
PageOld    == Page("ok", <<"/", "img.asp">>,
                   <<Form("other", <<"/", "rarpol", "/", "q.asp", "#", "top">>, OldInputs)>>)
PageNoImg  == Page("none", <<>>, <<Form("frm", <<>>, StdInputs)>>)
PageNoSrc  == Page("nosrc", <<>>, <<Form("frm", <<>>, StdInputs)>>)
PageNoForm == Page("ok", <<"captcha.asp">>, <<>>)
Pages      == {PageStd, PageOld, PageNoImg, PageNoSrc, PageNoForm}

Images == {"imgA", "imgB"}

BadStatuses == {500}
NetErrors   == {"timeout", "connerr"}

EmptyBody == Body(FALSE, <<>>, <<>>)
BodyRejectLower == Body(FALSE, <<Word(REJECT_PHRASE)>>, <<>>)
BodyRejectCap ==
    Body(TRUE, <<Word("Codul de verificare a fost copiat incorect")>>, <<Word("x")>>)
BodyRejectUpper ==
    Body(FALSE, <<Word("ok"), Word("CODUL DE VERIFICARE A FOST COPIAT INCORECT")>>, <<>>)
BodyValidNew ==
    Body(TRUE, <<>>,
         <<Word("Valabila pana la"), DateWord("-", <<<<"5">>, <<"Mar">>, <<"2026">>>>)>>)
BodyNotFound == Body(TRUE, <<>>, <<Word("Nu a fost gasita nicio inregistrare")>>)
BodyLegacy ==
    Body(FALSE, <<Word(DATA_EXP), DateWord(".", <<<<"15">>, <<"07">>, <<"2025">>>>)>>, <<>>)
BodyPlain == Body(FALSE, <<Word("ok")>>, <<>>)
PostBodies ==
    {BodyRejectLower, BodyRejectCap, BodyRejectUpper, BodyValidNew, BodyNotFound, BodyLegacy, BodyPlain}

-----------------------------------------------------------------------------
(* fetch_itp *)

\* `for attempt in range(1, 4)`
RANGE_END == 4
\* `if attempt == 3`
LAST_ATTEMPT == 3
\* re.fullmatch(r"\d{4}", clean_captcha)
REQUIRED_DIGITS == 4

NoRecord   == Record(<<>>, "", <<>>)
NoOutcome  == [kind |-> "none", type |-> "none", msg |-> <<>>, record |-> NoRecord]
Success(r) == [kind |-> "returned", type |-> "none", msg |-> <<>>, record |-> r]
Failure(t, m) == [kind |-> "raised", type |-> t, msg |-> m, record |-> NoRecord]

\* how an attempt ended: `end` names the step, `type` and `msg` the exception
\* (none for an accepted answer), `body` the POST response body that was read
HistEntry(end, type, msg, body) == [end |-> end, type |-> type, msg |-> msg, body |-> body]

\* `except UpdateFailed as e` (line 341)
CaughtByRetryLoop(type) == type = "UpdateFailed"

\* no attempt taken for the last one
IsLastAttemptNever(a) == FALSE
\* the second attempt taken for the last one too
IsLastAttemptFromSecond(a) == a >= LAST_ATTEMPT - 1
\* `if attempt == 3` (line 342)
IsLastAttempt(a) == a = LAST_ATTEMPT

\* the terminal error naming the first failure of the call
ExhaustedMsgFirstCause(e, h) ==
    <<"Failed after 3 attempts: ">> \o (IF h = <<>> THEN e ELSE h[1].msg)
\* f"Failed after 3 attempts: {str(e)}" (line 344)
ExhaustedMsg(e, h) == <<"Failed after 3 attempts: ">> \o e

\* the exception let through unwrapped
TopLevelUnwrapped(type, e) == Failure(type, e)
\* `except Exception as err: raise UpdateFailed(f"ITP check failed: {err}")`
TopLevel(type, e) == Failure("UpdateFailed", <<"ITP check failed: ">> \o e)

\* An exception of `type` with text `msg` raised inside the loop body: the
\* handlers of lines 341-347 and 398-400.
Raise(end, type, msg, body) ==
    /\ hist' = Append(hist, HistEntry(end, type, msg, body))
    /\ IF CaughtByRetryLoop(type)
       THEN IF IsLastAttempt(attempt)
            THEN /\ pc' = "done"
                 /\ outcome' = TopLevel("UpdateFailed", ExhaustedMsg(msg, hist))
            ELSE /\ pc' = "sleep"
                 /\ outcome' = outcome
       ELSE /\ pc' = "done"
            /\ outcome' = TopLevel(type, msg)

\* str(e) of what session.get / session.post raise
NetErrorType(k) == IF k = "timeout" THEN "TimeoutError" ELSE "ClientError"

\* lines 252-257
CaptchaUrl(src) ==
    IF StartsWith(src, <<"http">>) THEN src
    ELSE PORTAL_HOST \o <<"/", "rarpol", "/">>
             \o (IF src # <<>> /\ Head(src) = "/" THEN Tail(src) ELSE src)

Count(what) == calls' = [calls EXCEPT ![what] = @ + 1]

\* the page taken to have a CAPTCHA image whatever it holds
HasCaptchaImageUnchecked(page) == TRUE
\* lines 246-249: img#imgVerf is there and has a src
HasCaptchaImage(page) == page.img = "ok"

\* lines 237-249: GET the landing page, look for the CAPTCHA image
FetchPage ==
    /\ pc = "fetch_page"
    /\ Count("page")
    /\ \/ \E k \in NetErrors :
            /\ Raise("page_error", NetErrorType(k), ExcText(k), EmptyBody)
            /\ UNCHANGED <<soup, fetched_in>>
       \/ \E st \in BadStatuses :
            /\ Raise("page_status", "UpdateFailed",
                     <<"Initial request failed: HTTP ", StatusStr(st)>>, EmptyBody)
            /\ UNCHANGED <<soup, fetched_in>>
       \/ \E p \in Pages :
            /\ soup' = p
            /\ fetched_in' = [fetched_in EXCEPT !.page = attempt]
            /\ IF ~HasCaptchaImage(p)
               THEN Raise("no_captcha_image", "UpdateFailed",
                          <<"CAPTCHA image not found in page">>, EmptyBody)
               ELSE pc' = "get_captcha" /\ UNCHANGED <<hist, outcome>>
    /\ UNCHANGED <<vin, attempt, captcha_content, ocr_resp, clean_captcha, post_url,
                   form_data, result_text, parsed, posts>>
    /\ UNCHANGED <<ocrVars, fnVars, haVars, setupVars>>

\* lines 251-268: download the CAPTCHA image
GetCaptcha ==
    /\ pc = "get_captcha"
    /\ Count("image")
    /\ \/ \E k \in NetErrors :
            /\ Raise("image_error", NetErrorType(k), ExcText(k), EmptyBody)
            /\ UNCHANGED <<captcha_content, fetched_in>>
       \/ \E st \in BadStatuses :
            /\ Raise("image_status", "UpdateFailed",
                     <<"CAPTCHA download failed: HTTP ", StatusStr(st)>>, EmptyBody)
            /\ UNCHANGED <<captcha_content, fetched_in>>
       \/ \E img \in Images :
            /\ captcha_content' = img
            /\ fetched_in' = [fetched_in EXCEPT !.image = attempt]
            /\ pc' = "solve"
            /\ UNCHANGED <<hist, outcome>>
    /\ UNCHANGED <<vin, attempt, soup, ocr_resp, clean_captcha, post_url, form_data,
                   result_text, parsed, posts>>
    /\ UNCHANGED <<ocrVars, fnVars, haVars, setupVars>>

\* the cleaned code accepted whatever its length
CodeAcceptedUnchecked(clean) == TRUE
\* re.fullmatch(r"\d{4}", clean_captcha) (line 297)
CodeAccepted(clean) == FullMatchDigits(clean, REQUIRED_DIGITS, REQUIRED_DIGITS)

\* lines 270-305: solve the CAPTCHA, validate the code, build the form
SolveCaptcha ==
    /\ pc = "solve"
    /\ Count("ocr")
    /\ \E ans \in FetchOcrAnswers :
        LET r     == solve_captcha_with_local_api(ans)
            clean == StripNonDigits(r.value)
            built == build_form_data_from_page(soup, vin, clean)
        IN  /\ ocr_resp' = ans
            /\ fetched_in' = [fetched_in EXCEPT !.ocr = attempt]
            /\ IF ~r.ok
               THEN /\ Raise("ocr_failed", "UpdateFailed",
                             <<"OCR API failed: ">> \o r.msg, EmptyBody)
                    /\ UNCHANGED <<clean_captcha, post_url, form_data>>
               ELSE IF r.value = <<>>
               THEN /\ Raise("ocr_empty", "UpdateFailed",
                             <<"CAPTCHA OCR returned empty result">>, EmptyBody)
                    /\ UNCHANGED <<clean_captcha, post_url, form_data>>
               ELSE IF ~CodeAccepted(clean)
               THEN /\ Raise("bad_code", "UpdateFailed",
                             <<"Invalid CAPTCHA output after cleaning: ">> \o clean,
                             EmptyBody)
                    /\ clean_captcha' = clean
                    /\ UNCHANGED <<post_url, form_data>>
               ELSE IF ~built.ok
               THEN /\ Raise("no_form", "UpdateFailed", built.msg, EmptyBody)
                    /\ clean_captcha' = clean
                    /\ UNCHANGED <<post_url, form_data>>
               ELSE /\ clean_captcha' = clean
                    /\ post_url' = built.post_url
                    /\ form_data' = built.form_data
                    /\ pc' = "post"
                    /\ UNCHANGED <<hist, outcome>>
    /\ UNCHANGED <<vin, attempt, soup, captcha_content, result_text, parsed, posts>>
    /\ UNCHANGED <<ocrVars, fnVars, haVars, setupVars>>

\* lines 349-396 run on result_text, then `return`
ParseAndReturn(text) ==
    /\ parsed' = Append(parsed, text)
    /\ outcome' = Success(ParseResult(vin, text))
    /\ pc' = "done"

\* lines 315-339: POST the form, look for the rejection phrase
Submit ==
    /\ pc = "post"
    /\ Count("post")
    /\ posts' = Append(posts, [attempt |-> attempt, post_url |-> post_url,
                               form_data |-> form_data, code |-> clean_captcha,
                               page |-> soup, image |-> captcha_content,
                               ocr |-> ocr_resp, fetched_in |-> fetched_in])
    /\ \/ \E k \in NetErrors :
            /\ Raise("post_error", NetErrorType(k), ExcText(k), EmptyBody)
            /\ UNCHANGED <<result_text, parsed>>
       \/ \E st \in BadStatuses :
            /\ Raise("post_status", "UpdateFailed",
                     <<"POST request failed: HTTP ", StatusStr(st)>>, EmptyBody)
            /\ UNCHANGED <<result_text, parsed>>
       \/ \E b \in PostBodies :
            /\ result_text' = b
            /\ IF IsRejected(b)
               THEN /\ Raise("rejected", "UpdateFailed",
                             <<"CAPTCHA validation failed">>, b)
                    /\ parsed' = parsed
               ELSE /\ hist' = Append(hist, HistEntry("accepted", "none", <<>>, b))
                    /\ ParseAndReturn(result_text')
    /\ UNCHANGED <<vin, attempt, soup, captcha_content, ocr_resp, clean_captcha,
                   post_url, form_data, fetched_in>>
    /\ UNCHANGED <<ocrVars, fnVars, haVars, setupVars>>

\* the retry that does not count the attempts
BackoffNotCounting ==
    /\ pc = "sleep"
    /\ Count("sleep")
    /\ pc' = "fetch_page"
    /\ UNCHANGED <<vin, attempt, soup, captcha_content, ocr_resp, clean_captcha,
                   post_url, form_data, result_text, outcome, parsed, posts, hist,
                   fetched_in>>
    /\ UNCHANGED <<ocrVars, fnVars, haVars, setupVars>>
\* the retry that keeps the page of the failed attempt and starts at the
\* image download
BackoffReusingPage ==
    /\ pc = "sleep"
    /\ Count("sleep")
    /\ attempt' = attempt + 1
    /\ pc' = IF soup.img = "ok" THEN "get_captcha" ELSE "fetch_page"
    /\ UNCHANGED <<vin, soup, captcha_content, ocr_resp, clean_captcha, post_url,
                   form_data, result_text, outcome, parsed, posts, hist, fetched_in>>
    /\ UNCHANGED <<ocrVars, fnVars, haVars, setupVars>>
\* lines 346-347 and the loop header: sleep 2 seconds, then the next attempt
Backoff ==
    /\ pc = "sleep"
    /\ Count("sleep")
    /\ IF attempt + 1 < RANGE_END
       THEN /\ attempt' = attempt + 1
            /\ pc' = "fetch_page"
            /\ UNCHANGED <<outcome, parsed>>
       ELSE /\ attempt' = attempt
            /\ ParseAndReturn(result_text)
    /\ UNCHANGED <<vin, soup, captcha_content, ocr_resp, clean_captcha, post_url,
                   form_data, result_text, posts, hist, fetched_in>>
    /\ UNCHANGED <<ocrVars, fnVars, haVars, setupVars>>

NoCalls == [page |-> 0, image |-> 0, ocr |-> 0, post |-> 0, sleep |-> 0]
NotFetched == [page |-> 0, image |-> 0, ocr |-> 0]

NotCalled == Raised("pending", <<>>, <<>>)
OcrIdle   == ocr_in = NoAnswer /\ ocr_out = NotCalled
SetupIdle == LOCAL_OCR_API_URL = <<>> /\ entry = <<>> /\ ocr_calls = {}
ParseIdle == parse_in = EmptyBody /\ parse_out = NoRecord
NoFormCall == [page |-> NoPage, vin |-> <<>>, captcha_code |-> <<>>]
NotBuilt   == BuildFailed(<<"pending">>)
FormIdle   == form_in = NoFormCall /\ form_out = NotBuilt
NoCfg      == [options |-> <<>>, data |-> <<>>]
NotSetUp   == [endpoint |-> <<>>, request |-> <<>>]
CfgIdle    == cfg_in = NoCfg /\ cfg_out = NotSetUp
FnIdle    == ParseIdle /\ FormIdle /\ CfgIdle
NoUpdate  == [pc |-> "idle", attempt |-> 0, results |-> <<>>, sleeps |-> 0,
              outcome |-> NoOutcome]
NoHass    == [domain |-> FALSE, data |-> {}, service |-> FALSE, owner |-> <<>>,
              registers |-> 0, removes |-> 0, loaded |-> {}, created |-> 0,
              calls |-> <<>>]
UpdIdle   == upd = NoUpdate
HassIdle  == hass = NoHass
HaIdle    == UpdIdle /\ HassIdle
FetchIdle ==
    /\ vin = <<>> /\ pc = "idle" /\ attempt = 0 /\ soup = NoPage
    /\ captcha_content = "none" /\ ocr_resp = NoAnswer /\ clean_captcha = <<>>
    /\ post_url = <<>> /\ form_data = EmptyDict /\ result_text = EmptyBody
    /\ outcome = NoOutcome /\ parsed = <<>> /\ calls = NoCalls /\ posts = <<>>
    /\ hist = <<>> /\ fetched_in = NotFetched

\* fetch_itp(vin) has been called: lines 220-234
Init ==
    /\ vin \in Vins
    /\ pc = "fetch_page"
    /\ attempt = 1
    /\ soup = NoPage
    /\ captcha_content = "none"
    /\ ocr_resp = NoAnswer
    /\ clean_captcha = <<>>
    /\ post_url = <<>>
    /\ form_data = EmptyDict
    /\ result_text = EmptyBody
    /\ outcome = NoOutcome
    /\ parsed = <<>>
    /\ calls = NoCalls
    /\ posts = <<>>
    /\ hist = <<>>
    /\ fetched_in = NotFetched
    /\ OcrIdle
    /\ FnIdle
    /\ SetupIdle
    /\ HaIdle

Next == FetchPage \/ GetCaptcha \/ SolveCaptcha \/ Submit \/ Backoff

Spec == Init /\ [][Next]_vars

\* every network call returns and every sleep ends: a step that can be taken
\* is taken
SpecLive == Init /\ [][Next]_vars /\ WF_vars(Next)

-----------------------------------------------------------------------------
(* solve_captcha_with_local_api on every answer up to MaxLen symbols *)

RECURSIVE SeqsUpTo(_, _)
SeqsUpTo(S, n) ==
    IF n = 0 THEN {<<>>}
    ELSE LET shorter == SeqsUpTo(S, n - 1)
         IN  shorter \cup {Append(q, c) : q \in {x \in shorter : Len(x) = n - 1}, c \in S}

ErrBodies == {<<>>, <<"o", "o", "p", "s">>, LongBody}

OcrAnswers ==
    {OcrAnswer("http", 200, t, <<>>) : t \in SeqsUpTo(Chars, MaxLen)}
    \cup {OcrAnswer("http", st, <<>>, b) : st \in {404, 500}, b \in ErrBodies}
    \cup {OcrAnswer(k, 0, <<>>, <<>>) : k \in {"timeout", "connerr"}}
    \cup {OcrAnswer("badjson", 200, <<>>, <<>>)}

InitOcr ==
    /\ ocr_in \in OcrAnswers
    /\ ocr_out = NotCalled
    /\ FetchIdle
    /\ FnIdle
    /\ SetupIdle
    /\ HaIdle

\* the call: `captcha_text = await solve_captcha_with_local_api(captcha_content)`
CallSolve ==
    /\ ocr_out = NotCalled
    /\ ocr_out' = solve_captcha_with_local_api(ocr_in)
    /\ UNCHANGED <<ocr_in, fetchVars, fnVars, haVars, setupVars>>

NextOcr == CallSolve

SpecOcr == InitOcr /\ [][NextOcr]_vars

-----------------------------------------------------------------------------
(* sensor.async_setup_entry and the updates of two config entries *)

SetupVins == {"vinA", "vinB"}

\* config_entry.options / data ["tesseract_ip"] of each entry
TesseractIp(v) ==
    IF v = "vinA" THEN <<"10.0.0.5">>
    ELSE <<"http", ":", "/", "/", "ocr.lan", "/", "read">>

\* lines 513-516: options["tesseract_ip"].strip() or data["tesseract_ip"].strip()
EffectiveTesseract(options, data) ==
    IF Strip(options) # <<>> THEN Strip(options) ELSE Strip(data)

\* lines 524-541
DeriveOcrUrl(tesseract_ip) ==
    IF tesseract_ip # <<>>
    THEN IF \/ StartsWith(tesseract_ip, <<"http", ":", "/", "/">>)
            \/ StartsWith(tesseract_ip, <<"http", "s", ":", "/", "/">>)
         THEN tesseract_ip
         ELSE <<"http", ":", "/", "/">> \o tesseract_ip \o OCR_PATH
    ELSE DEFAULT_LOCAL_OCR_API_URL

\* expected_length=4 always appended as a first parameter
OcrRequestUrlNewQuery(base) == base \o <<"?", "expected_length=4">>
\* lines 83-87
OcrRequestUrl(base) ==
    IF \E i \in 1..Len(base) : base[i] = "?"
    THEN base \o <<"&", "expected_length=4">>
    ELSE base \o <<"?", "expected_length=4">>

At(v, where) == entry[v].at = where
Goto(v, where, first) == entry' = [entry EXCEPT ![v] = [at |-> where, first |-> first]]

\* a step of the update failed: another attempt, or the update gives up
\* (ConfigEntryNotReady during the first refresh, a failed refresh later)
StepFails(v) ==
    \/ Goto(v, "page", entry[v].first)
    \/ Goto(v, IF entry[v].first THEN "new" ELSE "loaded", FALSE)

\* lines 502-568: set the global from the entry, start the first refresh
SensorSetupEntry(v) ==
    /\ At(v, "new")
    /\ LOCAL_OCR_API_URL' = DeriveOcrUrl(TesseractIp(v))
    /\ Goto(v, "page", TRUE)
    /\ UNCHANGED <<ocr_calls, ocrVars, fetchVars, fnVars, haVars>>

\* the coordinator's interval elapsed: async_update_data (lines 544-555)
ScheduledUpdate(v) ==
    /\ At(v, "loaded")
    /\ Goto(v, "page", FALSE)
    /\ UNCHANGED <<LOCAL_OCR_API_URL, ocr_calls, ocrVars, fetchVars, fnVars, haVars>>

\* fetch_itp of this entry: the landing page arrives
EntryPage(v) ==
    /\ At(v, "page")
    /\ (Goto(v, "image", entry[v].first) \/ StepFails(v))
    /\ UNCHANGED <<LOCAL_OCR_API_URL, ocr_calls, ocrVars, fetchVars, fnVars, haVars>>

\* fetch_itp of this entry: the CAPTCHA image arrives
EntryImage(v) ==
    /\ At(v, "image")
    /\ (Goto(v, "ocr", entry[v].first) \/ StepFails(v))
    /\ UNCHANGED <<LOCAL_OCR_API_URL, ocr_calls, ocrVars, fetchVars, fnVars, haVars>>

\* solve_captcha_with_local_api of this entry: the URL is read from the
\* global when the call is made (lines 84-87)
EntryOcr(v) ==
    /\ At(v, "ocr")
    /\ ocr_calls' = ocr_calls \cup {<<v, OcrRequestUrl(LOCAL_OCR_API_URL)>>}
    /\ (Goto(v, "post", entry[v].first) \/ StepFails(v))
    /\ UNCHANGED <<LOCAL_OCR_API_URL, ocrVars, fetchVars, fnVars, haVars>>

\* fetch_itp of this entry: the POST is answered
EntryPost(v) ==
    /\ At(v, "post")
    /\ (Goto(v, "loaded", FALSE) \/ StepFails(v))
    /\ UNCHANGED <<LOCAL_OCR_API_URL, ocr_calls, ocrVars, fetchVars, fnVars, haVars>>

InitSetup ==
    /\ LOCAL_OCR_API_URL = DEFAULT_LOCAL_OCR_API_URL
    /\ entry = [v \in SetupVins |-> [at |-> "new", first |-> FALSE]]
    /\ ocr_calls = {}
    /\ OcrIdle
    /\ FetchIdle
    /\ FnIdle
    /\ HaIdle

NextSetup ==
    \E v \in SetupVins :
        \/ SensorSetupEntry(v)
        \/ ScheduledUpdate(v)
        \/ EntryPage(v)
        \/ EntryImage(v)
        \/ EntryOcr(v)
        \/ EntryPost(v)

SpecSetup == InitSetup /\ [][NextSetup]_vars

-----------------------------------------------------------------------------
(* The result parser called on its own, on every small result page *)

Date5Mar2026     == DateWord("-", << <<"5">>, <<"Mar">>, <<"2026">> >>)
Date12Xyz2026Dot == DateWord("-", << <<"1", "2">>, <<"xyz">>, <<"2026", ".">> >>)
Date15July2025   == DateWord(".", << <<"1", "5">>, <<"0", "7">>, <<"2025">> >>)
Date5July2025    == DateWord(".", << <<"5">>, <<"7">>, <<"2025">> >>)
DateNoYear       == DateWord("-", << <<"5">>, <<"mar">> >>)

\* the words the enumerated result pages are written with
ResultWords ==
    { Word(NO_RECORD), Word("Nu a fost gasita nicio inregistrare"),
      Word(VALID_UNTIL), Word("Valabila pana la"),
      Word(DATA_EXP), Word("DATA EXPIRARII"), Word("ok"),
      Date5Mar2026, SameNode(Date5Mar2026), Date12Xyz2026Dot,
      Date15July2025, SameNode(Date15July2025), Date5July2025, DateNoYear }

\* what the enumerated result pages have before the results container
Outsides ==
    { <<>>, <<Word(NO_RECORD)>>, <<Word(VALID_UNTIL)>>, <<Word(DATA_EXP)>>,
      <<Word(VALID_UNTIL), SameNode(Date5Mar2026)>>,
      <<Word(DATA_EXP), Date15July2025>> }

\* a page without the container has all its text outside it
ResultPages ==
    { Body(TRUE, o, i) : o \in Outsides, i \in SeqsUpTo(ResultWords, MaxInside) }
    \cup { Body(FALSE, o \o i, <<>>) :
               o \in Outsides, i \in SeqsUpTo(ResultWords, MaxInside) }

InitParse ==
    /\ parse_in \in ResultPages
    /\ parse_out = NoRecord
    /\ FormIdle /\ CfgIdle
    /\ OcrIdle
    /\ FetchIdle
    /\ SetupIdle
    /\ HaIdle

\* lines 349-396 run on an accepted result page
CallParse ==
    /\ parse_out = NoRecord
    /\ \E v \in Vins : parse_out' = ParseResult(v, parse_in)
    /\ UNCHANGED <<parse_in, form_in, form_out, cfg_in, cfg_out>>
    /\ UNCHANGED <<ocrVars, fetchVars, haVars, setupVars>>

NextParse == CallParse

SpecParse == InitParse /\ [][NextParse]_vars

-----------------------------------------------------------------------------
(* _build_form_data_from_page called on its own, on every small form *)

\* the <input> elements the enumerated forms are made of
FormInputs ==
    { Input(n, v) : n \in {"nr_id", "verif_cod", "antirobot", "trimite"},
                    v \in {<<>>, <<"o">>} }
    \cup { Input("hid", <<"t">>), Input("", <<"x">>) }

\* a form that is not the one to submit
DecoyForm == Form("other", <<>>, <<Input("decoy", <<"d">>)>>)

\* the pages with a form of these inputs: named frm, not named frm, named frm
\* after another form
FormPages(inputs) ==
    { Page("ok", <<"captcha.asp">>, <<Form("frm", <<>>, inputs)>>),
      Page("ok", <<"captcha.asp">>, <<Form("other", <<>>, inputs)>>),
      Page("ok", <<"captcha.asp">>, <<DecoyForm, Form("frm", <<>>, inputs)>>) }

\* what the enumerated form actions start with: nothing, a scheme and a host,
\* a file name that begins with the letters http
ActionStarts ==
    { <<>>, <<"http", ":", "/", "/", "h">>, <<"http", "s", ":", "/", "/", "h">>,
      <<"http", "d.asp">> }

\* the action attribute of a form
Actions ==
    { start \o rest : start \in ActionStarts,
                      rest \in SeqsUpTo({"/", "q.asp", "#"}, MaxAction) }

\* the pages whose form has one of these actions
ActionPages ==
    { Page("ok", <<"captcha.asp">>, <<Form("frm", a, StdInputs)>>) : a \in Actions }

SolvedCode == <<"1", "2", "2", "1">>

InitForm ==
    /\ \E v \in Vins :
         \/ \E inputs \in SeqsUpTo(FormInputs, MaxInputs) :
            \E page \in FormPages(inputs) :
                form_in = [page |-> page, vin |-> v, captcha_code |-> SolvedCode]
         \/ \E page \in ActionPages \cup {PageNoForm} :
                form_in = [page |-> page, vin |-> v, captcha_code |-> SolvedCode]
    /\ form_out = NotBuilt
    /\ ParseIdle /\ CfgIdle
    /\ OcrIdle
    /\ FetchIdle
    /\ SetupIdle
    /\ HaIdle

\* lines 144-215
CallBuild ==
    /\ form_out = NotBuilt
    /\ form_out' = build_form_data_from_page(form_in.page, form_in.vin,
                                              form_in.captcha_code)
    /\ UNCHANGED <<form_in, parse_in, parse_out, cfg_in, cfg_out>>
    /\ UNCHANGED <<ocrVars, fetchVars, haVars, setupVars>>

NextForm == CallBuild

SpecForm == InitForm /\ [][NextForm]_vars

-----------------------------------------------------------------------------
(* The OCR endpoint of one config entry: set up, then requested *)

\* what the enumerated tesseract_ip values start with
Schemes ==
    { <<>>, <<"http", ":", "/", "/">>, <<"http", "s", ":", "/", "/">>,
      <<"http">>, <<"http", ":", "/">>, <<"HTTP", ":", "/", "/">> }

Padding == { <<>>, <<" ">> }

\* options["tesseract_ip"]: white space, a scheme, a few symbols, white space
OptionValues ==
    { pre \o scheme \o rest \o post :
          pre \in Padding, scheme \in Schemes,
          rest \in SeqsUpTo({"h", "/", "?", "#"}, MaxRest), post \in Padding }

\* data["tesseract_ip"]
DataValues ==
    { <<>>, <<" ">>, <<" ", "d", " ">>,
      <<"http", "s", ":", "/", "/", "d", "/", "ocr", "?", "k=1">> }

InitEndpoint ==
    /\ \E o \in OptionValues, dv \in DataValues : cfg_in = [options |-> o, data |-> dv]
    /\ cfg_out = NotSetUp
    /\ ParseIdle /\ FormIdle
    /\ OcrIdle
    /\ FetchIdle
    /\ SetupIdle
    /\ HaIdle

\* lines 513-541: async_setup_entry sets the endpoint
SetUpEndpoint ==
    /\ cfg_out.endpoint = <<>>
    /\ cfg_out' = [cfg_out EXCEPT
                      !.endpoint = DeriveOcrUrl(EffectiveTesseract(cfg_in.options,
                                                                   cfg_in.data))]
    /\ UNCHANGED <<cfg_in, parse_in, parse_out, form_in, form_out>>
    /\ UNCHANGED <<ocrVars, fetchVars, haVars, setupVars>>

\* lines 83-87: solve_captcha_with_local_api builds the URL it requests
RequestOcr ==
    /\ cfg_out.endpoint # <<>>
    /\ cfg_out.request = <<>>
    /\ cfg_out' = [cfg_out EXCEPT !.request = OcrRequestUrl(cfg_out.endpoint)]
    /\ UNCHANGED <<cfg_in, parse_in, parse_out, form_in, form_out>>
    /\ UNCHANGED <<ocrVars, fetchVars, haVars, setupVars>>

NextEndpoint == SetUpEndpoint \/ RequestOcr

SpecEndpoint == InitEndpoint /\ [][NextEndpoint]_vars

-----------------------------------------------------------------------------
(* async_update_data: one scheduled update (sensor.py, lines 544-555) *)

\* `for attempt in range(3)`
UPDATE_RANGE_END == 3
\* `if attempt == 2`
UPDATE_LAST_ATTEMPT == 2
\* `await asyncio.sleep(2)`
UPDATE_SLEEP_SECONDS == 2

\* a finished fetch_itp call: its outcome and the portal attempts it made
FetchCall(o, n) == [outcome |-> o, portal_attempts |-> n]

FetchRecords ==
    { Record(<<"W", "V", "1">>, "Valid", <<"2026", "-", "0", "3", "-", "0", "5">>),
      Record(<<"W", "V", "1">>, "Not Found", UNKNOWN) }

\* how a fetch_itp call can end: a record after 1 to 3 attempts, the failure
\* after 3 failed attempts, an exception that ended it in any attempt
FetchResults ==
    { FetchCall(Success(rec), n) : rec \in FetchRecords, n \in 1..LAST_ATTEMPT }
    \cup { FetchCall(TopLevel("UpdateFailed",
                              ExhaustedMsg(<<"CAPTCHA validation failed">>, <<>>)),
                     LAST_ATTEMPT) }
    \cup { FetchCall(TopLevel(NetErrorType(k), ExcText(k)), n) :
               k \in NetErrors, n \in 1..LAST_ATTEMPT }

\* `except UpdateFailed as e` (line 550)
CaughtByUpdate(type) == type = "UpdateFailed"

InitUpdate ==
    /\ upd = [pc |-> "call", attempt |-> 0, results |-> <<>>, sleeps |-> 0,
              outcome |-> NoOutcome]
    /\ HassIdle
    /\ OcrIdle
    /\ FetchIdle
    /\ FnIdle
    /\ SetupIdle

\* lines 547-552: `return await fetch_itp(vin)`, or the handler of its failure
UpdateCallsFetch ==
    /\ upd.pc = "call"
    /\ \E res \in FetchResults :
         LET o == res.outcome
         IN  upd' = [upd EXCEPT
                       !.results = Append(@, res),
                       !.pc = IF o.kind = "raised" /\ CaughtByUpdate(o.type)
                                 /\ upd.attempt # UPDATE_LAST_ATTEMPT
                              THEN "sleep" ELSE "done",
                       !.outcome = IF o.kind = "raised" /\ CaughtByUpdate(o.type)
                                      /\ upd.attempt # UPDATE_LAST_ATTEMPT
                                   THEN @ ELSE o]
    /\ UNCHANGED <<hass, ocrVars, fetchVars, fnVars, setupVars>>

\* lines 554-555 and the loop header: sleep 2 seconds, then the next call
UpdateBackoff ==
    /\ upd.pc = "sleep"
    /\ upd.attempt + 1 < UPDATE_RANGE_END
    /\ upd' = [upd EXCEPT !.sleeps = @ + UPDATE_SLEEP_SECONDS, !.attempt = @ + 1, !.pc = "call"]
    /\ UNCHANGED <<hass, ocrVars, fetchVars, fnVars, setupVars>>

NextUpdate == UpdateCallsFetch \/ UpdateBackoff

SpecUpdate == InitUpdate /\ [][NextUpdate]_vars

-----------------------------------------------------------------------------
(* Entry setup, entry unload and the check_now service (__init__.py) *)

\* coordinators created over a run, check_now calls made over a run
MaxSetups == 3
MaxCalls == 1

\* the VINs of the config entries; the flow's schema takes any string, the
\* empty one included (config_flow.py, `vol.Required("vin"): str`)
EntryVins == { <<>>, <<"W", "V", "1">>, <<"W", "V", "2">> }

\* Python's `a or b` on strings
PyOr(a, b) == IF a # <<>> THEN a ELSE b

\* hass.data[DOMAIN] is a set of [vin, coordinator] with one element per VIN
\* `domain_data.get(vin)`: the coordinators stored under vin (none or one)
StoredFor(data, v) == { e.coordinator : e \in { x \in data : x.vin = v } }
\* `hass.data.setdefault(DOMAIN, {})[vin] = {"coordinator": coordinator}`
Store(data, v, c) ==
    { e \in data : e.vin # v } \cup { [vin |-> v, coordinator |-> c] }
\* `domain_data.pop(vin, None)`
Pop(data, v) == { e \in data : e.vin # v }

\* `hass.services.has_service(DOMAIN, "check_now")`
HasService(h) == h.service

InitHass ==
    /\ hass = NoHass
    /\ UpdIdle
    /\ OcrIdle
    /\ FetchIdle
    /\ FnIdle
    /\ SetupIdle

\* __init__.async_setup_entry with a sensor platform whose first refresh
\* succeeded: the coordinator is stored, then the service registered if absent
SetUpEntry ==
    /\ hass.created < MaxSetups
    /\ \E v \in EntryVins \ hass.loaded :
         LET c == hass.created + 1
         IN  hass' = [hass EXCEPT
                        !.domain = TRUE,
                        !.data = Store(@, v, c),
                        !.created = c,
                        !.loaded = @ \cup {v},
                        !.service = TRUE,
                        !.owner = IF HasService(hass) THEN @ ELSE v,
                        !.registers = IF HasService(hass) THEN @ ELSE @ + 1]
    /\ UNCHANGED <<upd, ocrVars, fetchVars, fnVars, setupVars>>

\* async_unload_entry
UnloadEntry ==
    /\ \E v \in hass.loaded, unload_ok \in BOOLEAN :
         IF ~unload_ok
         THEN hass' = hass
         ELSE IF ~hass.domain \/ hass.data = {}
         THEN hass' = [hass EXCEPT !.loaded = @ \ {v}]
         ELSE LET left == IF v # <<>> THEN Pop(hass.data, v) ELSE hass.data
              IN  hass' = [hass EXCEPT
                             !.loaded = @ \ {v},
                             !.data = left,
                             !.service = IF left = {} THEN FALSE ELSE @,
                             !.removes = IF left = {} /\ hass.service
                                         THEN @ + 1 ELSE @,
                             !.domain = IF left = {} THEN FALSE ELSE @]
    /\ UNCHANGED <<upd, ocrVars, fetchVars, fnVars, setupVars>>

\* handle_check_now, the handler the first setup registered
CheckNow ==
    /\ hass.service
    /\ Len(hass.calls) < MaxCalls
    \* `call.data.get("vin")`: <<>> stands for an absent or empty value
    /\ \E arg \in EntryVins \cup { <<"W", "V", "3">> } :
         LET v         == PyOr(arg, hass.owner)
             stored    == IF hass.domain THEN hass.data ELSE {}
             refreshed == IF v = <<>> THEN {} ELSE StoredFor(stored, v)
         IN  hass' = [hass EXCEPT
                        !.calls = Append(@, [arg |-> arg, vin |-> v,
                                             stored |-> stored,
                                             refreshed |-> refreshed])]
    /\ UNCHANGED <<upd, ocrVars, fetchVars, fnVars, setupVars>>

NextHass == SetUpEntry \/ UnloadEntry \/ CheckNow

SpecHass == InitHass /\ [][NextHass]_vars

-----------------------------------------------------------------------------
(* Claims C1 - C10 *)

Last(h) == h[Len(h)]

\* the CAPTCHA fields of a posted form that carry the code
CodeFields(data, code) == {f \in {"verif_cod", "antirobot"} \cap DOMAIN data : data[f] = code}

\* C1 (Spec): every POST of a fetch_itp call carries a CAPTCHA value of exactly
\* 4 digits, which is the digits-only form of what the OCR client returned in
\* that attempt and sits in the CAPTCHA field of the posted form; an attempt
\* whose OCR call failed, returned nothing or returned another number of
\* digits issues no POST.
C1_PostOnlyValidatedCaptcha ==
    /\ \A i \in 1..Len(posts) :
         LET p == posts[i]
         IN  /\ Len(p.code) = 4
             /\ \A j \in 1..Len(p.code) : p.code[j] \in Digits
             /\ p.ocr.kind = "http" /\ p.ocr.status = 200
             /\ StripNonDigits(p.ocr.text) # <<>>
             /\ Len(StripNonDigits(p.ocr.text)) >= 4
             /\ p.code = SubSeq(StripNonDigits(p.ocr.text), 1, 4)
             /\ CodeFields(p.form_data, p.code) # {}
    /\ \A i \in 1..Len(hist) :
         hist[i].end \in {"ocr_failed", "ocr_empty", "bad_code"}
             => \A j \in 1..Len(posts) : posts[j].attempt # i

C1_Witness ==
    /\ Len(posts) = 2
    /\ posts[2].ocr.text = <<" ", "2", "x", "1", "1", "2", "1">>
    /\ "antirobot" \in DOMAIN posts[2].form_data
    /\ posts[2].form_data["antirobot"] = <<"2", "1", "1", "2">>
    /\ hist # <<>> /\ hist[1].end = "rejected"

\* C2 (Spec): when the first k-1 attempts were rejected by the server and the
\* k-th POST is answered 200 without the rejection phrase, fetch_itp returns
\* the record parsed from that k-th body after exactly k page GETs, k image
\* downloads, k OCR calls and k POSTs (k = 1, 2, 3).
C2_SuccessAfterRejections ==
    \A k \in 1..LAST_ATTEMPT :
        ( /\ pc = "done"
          /\ Len(hist) = k
          /\ \A i \in 1..(k - 1) : hist[i].end = "rejected"
          /\ hist[k].end = "accepted" )
        => /\ outcome = Success(ParseResult(vin, hist[k].body))
           /\ calls.page = k /\ calls.image = k /\ calls.ocr = k /\ calls.post = k
           /\ calls.sleep = k - 1

C2_Witness ==
    /\ pc = "done"
    /\ Len(hist) = 3
    /\ hist[1].end = "rejected" /\ hist[2].end = "rejected"
    /\ hist[3].end = "accepted" /\ hist[3].body = BodyValidNew
    /\ outcome.kind = "returned"
    /\ outcome.record.expiration_date = <<"2026", "-", "0", "3", "-", "0", "5">>
    /\ calls.post = 3

\* C3 (Spec): when all three attempts fail, fetch_itp raises UpdateFailed and
\* its message is the fixed wrapper text followed by the message of the third
\* attempt's failure.
C3_TerminalCarriesLastCause ==
    ( /\ pc = "done"
      /\ Len(hist) = LAST_ATTEMPT
      /\ \A i \in 1..LAST_ATTEMPT : hist[i].end # "accepted" )
    => /\ outcome.kind = "raised"
       /\ outcome.type = "UpdateFailed"
       /\ outcome.msg \in
            { <<"ITP check failed: ", "Failed after 3 attempts: ">> \o hist[3].msg,
              <<"ITP check failed: ">> \o hist[3].msg }

C3_Witness ==
    /\ pc = "done"
    /\ Len(hist) = 3
    /\ hist[1].end = "page_status"
    /\ hist[2].end = "rejected"
    /\ hist[3].end = "bad_code"
    /\ outcome.kind = "raised"

\* C4 (Spec): a timeout or network error raised by an HTTP call of attempt 1
\* or 2 does not end the call: a failure reaches the caller only after the
\* third attempt.
C4_TransportErrorRetried ==
    \A i \in 1..Len(hist) :
        (hist[i].end \in {"page_error", "image_error", "post_error"} /\ i < LAST_ATTEMPT)
            => ~(pc = "done" /\ Len(hist) = i)

\* the rejection phrase is in the page, in any letter case
C5_BodyHasPhrase(b) ==
    \E i \in 1..Len(b.outside \o b.inside) :
        (b.outside \o b.inside)[i].s \in
            { "codul de verificare a fost copiat incorect",
              "Codul de verificare a fost copiat incorect",
              "CODUL DE VERIFICARE A FOST COPIAT INCORECT" }

\* C5 (Spec): a 200 POST response holding the rejection phrase, in any letter
\* case, fails its attempt with UpdateFailed as a non-200 response does, is
\* never given to the result parser, and is followed by a retry when the
\* attempt is the first or second (by the terminal failure when it is the
\* third).
C5_RejectionIsFailure ==
    \A i \in 1..Len(hist) :
        (hist[i].end \in {"rejected", "accepted"} /\ C5_BodyHasPhrase(hist[i].body))
        => /\ hist[i].end = "rejected"
           /\ hist[i].type = "UpdateFailed"
           /\ \A j \in 1..Len(parsed) : parsed[j] # hist[i].body
           /\ (i < LAST_ATTEMPT /\ Len(hist) = i)
                => /\ outcome = NoOutcome
                   /\ \/ pc = "sleep" /\ attempt = i
                      \/ pc \in {"fetch_page", "get_captcha", "solve", "post"}
                            /\ attempt = i + 1
           /\ (i = LAST_ATTEMPT) => (pc = "done" /\ outcome.kind = "raised")

C5_Witness ==
    /\ Len(hist) = 1
    /\ hist[1].end = "rejected"
    /\ hist[1].body = BodyRejectCap
    /\ attempt = 2
    /\ pc = "fetch_page"

\* C6 (SpecSetup): every OCR call made for a VIN goes to the endpoint set up
\* for that VIN.
C6_OcrCallUsesOwnEndpoint ==
    \A c \in ocr_calls : c[2] = OcrRequestUrl(DeriveOcrUrl(TesseractIp(c[1])))

\* C7 as stated (SpecOcr): a 200 answer whose text strips to 4 or more digits,
\* of any length, gives the first 4 of them.
C7_FirstFourOfAnyLength ==
    ( /\ ocr_out # NotCalled
      /\ ocr_in.kind = "http" /\ ocr_in.status = 200
      /\ Len(StripNonDigits(ocr_in.text)) >= 4 )
    => ocr_out = Returned(SubSeq(StripNonDigits(ocr_in.text), 1, 4))

\* C7 amended (SpecOcr): a 200 answer whose text strips to 4, 5 or 6 digits
\* gives the first 4 of them; one that strips to 7 or more digits fails with
\* OCRAPIError.
C7_FirstFourUpToSix ==
    ( /\ ocr_out # NotCalled
      /\ ocr_in.kind = "http" /\ ocr_in.status = 200
      /\ Len(StripNonDigits(ocr_in.text)) >= 4 )
    => IF Len(StripNonDigits(ocr_in.text)) <= 6
       THEN ocr_out = Returned(SubSeq(StripNonDigits(ocr_in.text), 1, 4))
       ELSE ~ocr_out.ok /\ ocr_out.type = "OCRAPIError"

C7_Witness ==
    /\ ocr_in.text = <<"2", "x", "1", "1", "2", " ", "1">>
    /\ ocr_out = Returned(<<"2", "1", "1", "2">>)

\* C8 (SpecOcr): an answer whose text is empty or has no digit fails with
\* OCRAPIError; a returned value is a non-empty string of at most 6 digits,
\* and a candidate of fewer than 4 digits is returned unchanged.
C8_EmptyFailsElseDigits ==
    (ocr_out # NotCalled /\ ocr_in.kind = "http" /\ ocr_in.status = 200)
    => /\ (\A i \in 1..Len(ocr_in.text) : ocr_in.text[i] \notin Digits)
            => (~ocr_out.ok /\ ocr_out.type = "OCRAPIError")
       /\ ocr_out.ok
            => /\ Len(ocr_out.value) \in 1..6
               /\ \A i \in 1..Len(ocr_out.value) : ocr_out.value[i] \in Digits
       /\ Len(StripNonDigits(ocr_in.text)) \in 1..3
            => ocr_out = Returned(StripNonDigits(ocr_in.text))

C8_Witness ==
    /\ ocr_in.text = <<" ", "x", " ">>
    /\ ~ocr_out.ok
    /\ ocr_out.type = "OCRAPIError"

\* C9 (Spec): a fetch_itp call ends with a record or with UpdateFailed, and
\* with nothing else, whichever step failed and whatever it raised.
C9_SingleFailureType ==
    pc = "done"
    => \/ outcome.kind = "returned"
       \/ outcome.kind = "raised" /\ outcome.type = "UpdateFailed"

C9_Witness ==
    /\ pc = "done"
    /\ outcome.kind = "raised"
    /\ Last(hist).end = "post_error"
    /\ Last(hist).type = "TimeoutError"

\* C10 (Spec): when the last attempt failed on a non-200 answer of the OCR
\* endpoint, the terminal failure message still holds the status and the
\* body cut to 200 characters.
C10_TerminalKeepsOcrCause ==
    ( /\ pc = "done"
      /\ outcome.kind = "raised"
      /\ Last(hist).end = "ocr_failed"
      /\ ocr_resp.kind = "http" /\ ocr_resp.status # 200 )
    => Contains(outcome.msg, OcrHttpErrorMsg(ocr_resp))

-----------------------------------------------------------------------------
(* Claims C11 - C20 *)

\* the text the parser reads: the container's when the page has one
ParsedText(b) == IF b.div THEN Lower(b.inside) ELSE Lower(RawText(b))
\* the text of the whole page
PageText(b) == Lower(RawText(b))

\* C11 as stated: a page with the no-record marker anywhere in it, in any
\* letter case, is parsed as "Not Found" with date "Unknown"; the status is
\* "Valid" or "Not Found", and "Valid" exactly when the page has no marker.
C11_MarkerAnywhereInPage ==
    parse_out # NoRecord =>
        /\ parse_out.status \in {"Valid", "Not Found"}
        /\ HasPhrase(PageText(parse_in), NO_RECORD) =>
               parse_out.status = "Not Found" /\ parse_out.expiration_date = UNKNOWN
        /\ parse_out.status = "Valid" <=> ~HasPhrase(PageText(parse_in), NO_RECORD)

\* C11 amended: the marker counts where the parser reads, which is the text of
\* the results container when the page has one and the whole page otherwise.
\* With the marker there, in any letter case, the record is "Not Found" with
\* date "Unknown"; the status is "Valid" exactly when the marker is not there.
C11_MarkerInParsedText ==
    parse_out # NoRecord =>
        /\ parse_out.status \in {"Valid", "Not Found"}
        /\ HasPhrase(ParsedText(parse_in), NO_RECORD) =>
               parse_out.status = "Not Found" /\ parse_out.expiration_date = UNKNOWN
        /\ parse_out.status = "Valid" <=> ~HasPhrase(ParsedText(parse_in), NO_RECORD)

\* a page with a capitalised marker and the new-format marker in its container
\* has been parsed as "Not Found"
C11_Witness ==
    /\ parse_in.div
    /\ parse_out.status = "Not Found"
    /\ ~HasPhrase(parse_in.inside, NO_RECORD)
    /\ HasPhrase(Lower(parse_in.inside), NO_RECORD)
    /\ HasPhrase(parse_in.inside, VALID_UNTIL)

\* a token d-mon-yyyy
IsDashDate(w) == w.sep = "-" /\ Len(w.parts) = 3

\* yyyy-MM-dd for a token d-mon-yyyy: the day padded to two digits, the month
\* from the table, a full stop after the year left out
DashDateValue(w) ==
    LET day  == w.parts[1]
        year == w.parts[3]
    IN  (IF year[Len(year)] = "." THEN SubSeq(year, 1, Len(year) - 1) ELSE year)
            \o <<"-">> \o MONTH_MAP(w.parts[2]) \o <<"-">>
            \o (IF Len(day) = 1 THEN <<"0">> \o day ELSE day)

\* the first place of a phrase in a text, 0 when it is not there
FirstAt(text, phrase) ==
    IF HasPhrase(text, phrase)
    THEN CHOOSE i \in 1..Len(text) :
             text[i].s = phrase /\ \A j \in 1..(i - 1) : text[j].s # phrase
    ELSE 0

\* the first marker of a text is followed by a token d-mon-yyyy
MarkerThenDashDate(text) ==
    LET i == FirstAt(text, VALID_UNTIL)
    IN  i > 0 /\ i < Len(text) /\ IsDashDate(text[i + 1])

\* C12 as stated: a page with the new-format marker followed by a token
\* d-mon-yyyy is parsed to the date yyyy-MM-dd, with dd the padded day and MM
\* the table's number of the month, "01" for a month not in the table.
C12_NewFormatAnywhereInPage ==
    parse_out # NoRecord /\ MarkerThenDashDate(PageText(parse_in)) =>
        LET text == PageText(parse_in)
        IN  parse_out.expiration_date = DashDateValue(text[FirstAt(text, VALID_UNTIL) + 1])

\* C12 amended: the date is read where the parser reads (the container's text
\* when the page has one, the raw page otherwise) and only on a page without
\* the no-record marker there: when the first new-format marker of that text,
\* in any letter case, is followed by a token d-mon-yyyy, the date is
\* yyyy-MM-dd, with dd the padded day and MM the table's number of the
\* lower-cased month, "01" for a month not in the table.
C12_NewFormatInParsedText ==
    /\ parse_out # NoRecord /\ MarkerThenDashDate(ParsedText(parse_in))
          /\ ~HasPhrase(ParsedText(parse_in), NO_RECORD) =>
           LET text == ParsedText(parse_in)
           IN  /\ parse_out.status = "Valid"
               /\ parse_out.expiration_date =
                      DashDateValue(text[FirstAt(text, VALID_UNTIL) + 1])
    /\ DashDateValue(LowerWord(Date5Mar2026)) = <<"2026", "-", "0", "3", "-", "0", "5">>
    /\ DashDateValue(Date12Xyz2026Dot) = <<"2026", "-", "0", "1", "-", "1", "2">>

\* "Valabila pana la" and 5-Mar-2026 in the container were parsed to 2026-03-05
C12_Witness ==
    /\ parse_in.div
    /\ parse_in.inside = <<Word("Valabila pana la"), Date5Mar2026>>
    /\ parse_out.status = "Valid"
    /\ parse_out.expiration_date = <<"2026", "-", "0", "3", "-", "0", "5">>

\* a date dd.mm.yyyy
IsDotDate(w) == w.sep = "." /\ Len(w.parts) = 3

\* yyyy-mm-dd for a date dd.mm.yyyy, the parts as they are written
DotDateValue(w) == w.parts[3] \o <<"-">> \o w.parts[2] \o <<"-">> \o w.parts[1]

\* the words of a page, before and in the container
Doc(b) == b.outside \o b.inside

\* the first "Data expirarii" of a text is followed by a date dd.mm.yyyy
MarkerThenDotDate(text) ==
    LET i == FirstAt(text, DATA_EXP)
    IN  i > 0 /\ i < Len(text) /\ IsDotDate(text[i + 1])

\* the first text node of the page with "Data expirarii" in it ends with that
\* marker, and the element after it holds a date dd.mm.yyyy and nothing else
MarkerNodeThenDateElement(b) ==
    LET i == FirstAt(Doc(b), DATA_EXP)
    IN  /\ MarkerThenDotDate(Doc(b))
        /\ StartsNode(b, i + 1)
        /\ IF b.div /\ i = Len(b.outside)
           THEN Len(b.inside) = 1
           ELSE i + 1 = Len(Doc(b)) \/ StartsNode(b, i + 2)

\* C13 as stated: a page with "Data expirarii" followed by a date dd.mm.yyyy
\* and without the no-record marker is parsed to the date yyyy-mm-dd, the
\* three parts as they are written.
C13_LegacyAnywhereInPage ==
    /\ parse_out # NoRecord
    /\ MarkerThenDotDate(Doc(parse_in))
    /\ ~HasPhrase(PageText(parse_in), NO_RECORD)
    => parse_out.expiration_date =
           DotDateValue(Doc(parse_in)[FirstAt(Doc(parse_in), DATA_EXP) + 1])

\* C13 amended: the legacy format is read only when the text the parser reads
\* has neither the no-record marker nor the new-format marker and has the
\* legacy marker in some letter case; then, when the first text node of the
\* page with "Data expirarii" (in this letter case) ends with the marker and
\* the element after it holds a date dd.mm.yyyy and nothing else, the date
\* is yyyy-mm-dd, the three parts as they are written.
C13_LegacyAfterNewFormat ==
    /\ parse_out # NoRecord
    /\ ~HasPhrase(ParsedText(parse_in), NO_RECORD)
    /\ ~HasPhrase(ParsedText(parse_in), VALID_UNTIL)
    /\ HasPhrase(ParsedText(parse_in), "data expirarii")
    /\ MarkerNodeThenDateElement(parse_in)
    => /\ parse_out.status = "Valid"
       /\ parse_out.expiration_date =
              DotDateValue(Doc(parse_in)[FirstAt(Doc(parse_in), DATA_EXP) + 1])

\* "Data expirarii" and, in the next element, 5.7.2025 were parsed to 2025-7-5
C13_Witness ==
    /\ parse_in.div
    /\ parse_in.inside = <<Word(DATA_EXP), Date5July2025>>
    /\ parse_out.expiration_date = <<"2025", "-", "7", "-", "5">>

\* C14 as stated: an accepted page always gives a record, and one with
\* neither date marker gives status "Valid" and date "Unknown".
C14_NoMarkerIsValid ==
    /\ parse_out # NoRecord
    /\ ~HasPhrase(ParsedText(parse_in), VALID_UNTIL)
    /\ ~HasPhrase(ParsedText(parse_in), "data expirarii")
    => parse_out.status = "Valid" /\ parse_out.expiration_date = UNKNOWN

\* no word of the page is written with a full stop in it
NoDots(b) ==
    \A i \in 1..Len(Doc(b)) :
        LET text == WordText(Doc(b)[i])
        IN  \A k \in 1..Len(text) : text[k] # "."

\* C14 amended: an accepted page always gives a record, with status "Valid"
\* or "Not Found" and a date that is "Unknown" or a date read from the page.
\* On a page without the no-record marker in the text the parser reads, the
\* status is "Valid" and the new format is tried first: with its marker there
\* the date is the one of the token after it, and "Unknown" when that token
\* is no d-mon-yyyy, whatever legacy date the page has; the legacy format is
\* read only without the new-format marker; with neither marker, or with a
\* legacy marker and no dd.mm.yyyy to read, the date is "Unknown".
C14_DateNeverFails ==
    parse_out # NoRecord =>
        LET text == ParsedText(parse_in)
        IN  /\ parse_out.status \in {"Valid", "Not Found"}
            /\ parse_out.expiration_date # <<>>
            /\ parse_out.vin \in Vins
            /\ ~HasPhrase(text, NO_RECORD) =>
                  /\ parse_out.status = "Valid"
                  /\ HasPhrase(text, VALID_UNTIL) =>
                        parse_out.expiration_date =
                            IF MarkerThenDashDate(text)
                            THEN DashDateValue(text[FirstAt(text, VALID_UNTIL) + 1])
                            ELSE UNKNOWN
                  /\ ~HasPhrase(text, VALID_UNTIL) /\ ~HasPhrase(text, "data expirarii") =>
                        parse_out.expiration_date = UNKNOWN
                  /\ ~HasPhrase(text, VALID_UNTIL)
                        /\ (NoDots(parse_in) \/ ~HasPhrase(Doc(parse_in), DATA_EXP)) =>
                        parse_out.expiration_date = UNKNOWN

\* a page with the new-format marker before a token without a year in its
\* container, and a legacy date before it, was parsed as "Valid" with date
\* "Unknown"
C14_Witness ==
    /\ parse_in.div
    /\ parse_in.outside = <<Word(DATA_EXP), Date15July2025>>
    /\ parse_in.inside = <<Word(VALID_UNTIL), DateNoYear>>
    /\ parse_out.status = "Valid"
    /\ parse_out.expiration_date = UNKNOWN

\* the form _build_form_data_from_page reads: the first one named frm, else
\* the first one
ChosenForm(page) ==
    IF \E i \in 1..Len(page.forms) : page.forms[i].name = "frm"
    THEN page.forms[CHOOSE i \in 1..Len(page.forms) :
                        /\ page.forms[i].name = "frm"
                        /\ \A j \in 1..(i - 1) : page.forms[j].name # "frm"]
    ELSE page.forms[1]

\* the names of the named inputs of a form
FieldNames(form) == {form.inputs[i].name : i \in 1..Len(form.inputs)} \ {""}

\* the value a form's page gives a field: the one of its last input of that name
PageValue(form, n) ==
    form.inputs[CHOOSE i \in 1..Len(form.inputs) :
                    /\ form.inputs[i].name = n
                    /\ \A j \in (i + 1)..Len(form.inputs) : form.inputs[j].name # n].value

\* C15: for every page with a form and every VIN, the form data built has
\* nr_id equal to the upper-cased VIN, whether the form had no nr_id field, an
\* empty one or one with another value.
C15_VinUpperCased ==
    form_out # NotBuilt /\ form_in.page.forms # <<>> =>
        /\ form_out.ok
        /\ "nr_id" \in DOMAIN form_out.form_data
        /\ form_out.form_data["nr_id"] = <<"W", "V", "1">>

\* the form had nr_id = "o", the VIN was given in lower case, and the form
\* data built has nr_id = "WV1"
C15_Witness ==
    /\ form_out # NotBuilt
    /\ form_in.vin = <<"w", "v", "1">>
    /\ form_in.page.forms # <<>>
    /\ "nr_id" \in FieldNames(ChosenForm(form_in.page))
    /\ PageValue(ChosenForm(form_in.page), "nr_id") = <<"o">>
    /\ form_out.form_data["nr_id"] = <<"W", "V", "1">>

\* the CAPTCHA field the solved code goes to
CaptchaField(form) ==
    IF "verif_cod" \in FieldNames(form) THEN "verif_cod"
    ELSE IF "antirobot" \in FieldNames(form) THEN "antirobot"
    ELSE "verif_cod"

C17_ExactlyOneCaptchaField ==
    form_out # NotBuilt /\ form_in.page.forms # <<>> =>
        LET fd == form_out.form_data
            filled == {n \in {"verif_cod", "antirobot"} \cap DOMAIN fd : fd[n] # <<>>}
        IN  /\ filled = {CaptchaField(ChosenForm(form_in.page))}
            /\ \A n \in filled : fd[n] = form_in.captcha_code

\* the configured override: the options value without the white space around
\* it, the data value when that is blank
Override(cfg) ==
    LET o == Strip(cfg.options)
    IN  IF o = <<>> THEN Strip(cfg.data) ELSE o

\* C18: the endpoint set up is the override itself when it starts with http://
\* or https://, http://h:8000/ocr/file?lang=eng for any other non-blank
\* override h, and the default URL for a blank one; the URL requested is the
\* endpoint with expected_length=4 appended, after "&" when the endpoint has
\* a "?" in it and after "?" otherwise.
C18_EndpointDerivedFromOverride ==
    LET h == Override(cfg_in)
        full == \/ SubSeq(h, 1, Min(4, Len(h))) = <<"http", ":", "/", "/">>
                \/ SubSeq(h, 1, Min(5, Len(h))) = <<"http", "s", ":", "/", "/">>
        e == cfg_out.endpoint
    IN  /\ e # <<>> =>
              e = IF h = <<>>
                  THEN <<"http", ":", "/", "/", "127.0.0.1",
                         ":", "8000", "/", "ocr", "/", "file", "?", "lang=eng">>
                  ELSE IF full THEN h
                  ELSE <<"http", ":", "/", "/">> \o h
                           \o <<":", "8000", "/", "ocr", "/", "file", "?", "lang=eng">>
        /\ cfg_out.request # <<>> =>
              cfg_out.request =
                  e \o (IF "?" \in {e[i] : i \in 1..Len(e)} THEN <<"&">> ELSE <<"?">>)
                    \o <<"expected_length=4">>

\* a padded https URL without a query was set up as it is, without the
\* padding, and requested with ?expected_length=4
C18_Witness ==
    /\ cfg_in.options = <<" ", "http", "s", ":", "/", "/", "h", "/", " ">>
    /\ cfg_out.endpoint = <<"http", "s", ":", "/", "/", "h", "/">>
    /\ cfg_out.request = <<"http", "s", ":", "/", "/", "h", "/", "?", "expected_length=4">>

\* C19 (Spec): the form fields, the submission URL and the CAPTCHA code of
\* the POST of attempt k are the ones made from the page fetched, the image
\* downloaded and the OCR answer got in attempt k itself, never from those of
\* an earlier attempt.
C19_NothingReusedAcrossAttempts ==
    \A i \in 1..Len(posts) :
        LET p     == posts[i]
            code  == StripNonDigits(solve_captcha_with_local_api(p.ocr).value)
            built == build_form_data_from_page(p.page, vin, code)
        IN  /\ p.fetched_in = [page |-> p.attempt, image |-> p.attempt, ocr |-> p.attempt]
            /\ p.page.img = "ok"
            /\ built.ok
            /\ p.code = code
            /\ p.form_data = built.form_data
            /\ p.post_url = built.post_url
            /\ \A j \in 1..(i - 1) : posts[j].attempt < p.attempt

\* attempt 1 POSTed the form of one page, attempt 2 the form of another page
\* with another image and another OCR answer
C19_Witness ==
    /\ Len(posts) = 2
    /\ posts[1].page = PageStd /\ posts[2].page = PageOld
    /\ posts[1].image # posts[2].image
    /\ posts[1].code # posts[2].code
    /\ posts[2].fetched_in = [page |-> 2, image |-> 2, ocr |-> 2]
    /\ "antirobot" \in DOMAIN posts[2].form_data
    /\ posts[2].form_data["antirobot"] = posts[2].code

\* the attempts before the last that have failed
FailedEarly(h) == {i \in 1..Len(h) : i < LAST_ATTEMPT /\ h[i].end # "accepted"}

\* C20 (Spec): every failed attempt k < 3 is followed by one backoff sleep and
\* another attempt starting at the page fetch; a failed attempt 3 is followed
\* by no sleep and by a terminal error whose message has the cause and the
\* attempt count 3; no sleep follows a successful attempt, and there are at
\* most two sleeps.
C20_OneBackoffPerFailedAttempt ==
    /\ calls.sleep <= 2
    /\ calls.sleep = Cardinality(FailedEarly(hist)) - (IF pc = "sleep" THEN 1 ELSE 0)
    /\ \A i \in FailedEarly(hist) :
           /\ Len(hist) = i => pc # "done"
           /\ Len(hist) = i /\ pc = "sleep" => attempt = i
           /\ Len(hist) > i \/ pc # "sleep" =>
                  attempt > i /\ calls.page >= i + (IF attempt = i + 1 /\ pc = "fetch_page"
                                                     THEN 0 ELSE 1)
    /\ pc = "done" /\ outcome.kind = "raised" =>
           /\ Len(hist) = LAST_ATTEMPT
           /\ outcome.msg =
                  <<"ITP check failed: ", "Failed after 3 attempts: ">> \o hist[3].msg
    /\ pc = "done" /\ outcome.kind = "returned" =>
           calls.sleep = Len(hist) - 1

-----------------------------------------------------------------------------
(* Claims C21 - C27 *)

\* how an attempt ends at the page fetch, at the image download, at the OCR
\* and form steps, and at the POST
PageEnds  == {"page_error", "page_status", "no_captcha_image"}
ImageEnds == {"image_error", "image_status"}
SolveEnds == {"ocr_failed", "ocr_empty", "bad_code", "no_form"}
PostEnds  == {"post_error", "post_status", "rejected", "accepted"}

\* the attempts that have ended in one of these ways
EndedIn(ends) == Cardinality({i \in 1..Len(hist) : hist[i].end \in ends})

\* C21 (Spec): in each attempt the steps come in the order page fetch, image
\* download, OCR, form build, POST, rejection check, and a failed step ends
\* the attempt: an image is downloaded only in an attempt that fetched a page
\* with a CAPTCHA image that has a src, the OCR is called only after the
\* download, the POST is made only with a form built from the page after the
\* OCR, and a response is checked for the rejection only after the POST.
C21_StepsInOrder ==
    /\ calls.page = Len(hist) + (IF pc \in {"get_captcha", "solve", "post"} THEN 1 ELSE 0)
    /\ calls.image = EndedIn(ImageEnds \cup SolveEnds \cup PostEnds)
                         + (IF pc \in {"solve", "post"} THEN 1 ELSE 0)
    /\ calls.ocr = EndedIn(SolveEnds \cup PostEnds) + (IF pc = "post" THEN 1 ELSE 0)
    /\ calls.post = EndedIn(PostEnds)
    /\ Len(posts) = calls.post
    /\ pc \in {"get_captcha", "solve", "post"} => soup.img = "ok"
    /\ pc = "post" => soup.forms # <<>>
    /\ \A i \in 1..Len(posts) :
           /\ posts[i].page.img = "ok"
           /\ posts[i].page.forms # <<>>
           /\ hist[posts[i].attempt].end \in PostEnds
    /\ \A i \in 1..Len(hist) :
           hist[i].end \in PostEnds <=> \E j \in 1..Len(posts) : posts[j].attempt = i

\* attempt 1 got a page without the image, attempt 2 a page without a form:
\* two page fetches, one download, one OCR call, no POST
C21_Witness ==
    /\ Len(hist) = 2
    /\ hist[1].end = "no_captcha_image"
    /\ hist[2].end = "no_form"
    /\ calls.page = 2 /\ calls.image = 1 /\ calls.ocr = 1 /\ calls.post = 0

\* the ends of an attempt by a classified failure: non-200 page, no CAPTCHA
\* image, non-200 download, OCRAPIError, OCR output empty or not 4 digits, no
\* form, non-200 POST
ClassifiedEnds ==
    {"page_status", "no_captcha_image", "image_status", "ocr_failed", "ocr_empty",
     "bad_code", "no_form", "post_status"}

\* C22 (Spec): a classified failure fails only its attempt: in attempt 1 or 2
\* it is followed by the backoff and a new attempt starting at the page fetch,
\* never by the end of the call; in attempt 3 it ends the call with
\* UpdateFailed.
C22_ClassifiedFailureRetried ==
    \A i \in 1..Len(hist) :
        hist[i].end \in ClassifiedEnds =>
            /\ hist[i].type = "UpdateFailed"
            /\ i < LAST_ATTEMPT /\ Len(hist) = i =>
                   /\ outcome = NoOutcome
                   /\ \/ pc = "sleep" /\ attempt = i
                      \/ /\ pc \in {"fetch_page", "get_captcha", "solve", "post"}
                         /\ attempt = i + 1
                         /\ calls.page = i + (IF pc = "fetch_page" THEN 0 ELSE 1)
            /\ i = LAST_ATTEMPT =>
                   /\ pc = "done"
                   /\ outcome.kind = "raised" /\ outcome.type = "UpdateFailed"

\* an OCR failure in attempt 1 and a missing form in attempt 2 were retried,
\* a non-200 POST in attempt 3 ended the call
C22_Witness ==
    /\ Len(hist) = 3
    /\ hist[1].end = "ocr_failed"
    /\ hist[2].end = "no_form"
    /\ hist[3].end = "post_status"
    /\ pc = "done" /\ outcome.kind = "raised"
    /\ calls.page = 3 /\ calls.sleep = 2

\* the action without its fragment: what stands before the first "#"
WithoutFragment(a) ==
    IF \E i \in 1..Len(a) : a[i] = "#"
    THEN SubSeq(a, 1, (CHOOSE i \in 1..Len(a) :
                           a[i] = "#" /\ \A j \in 1..(i - 1) : a[j] # "#") - 1)
    ELSE a

\* an absolute URL: it starts with a scheme
IsAbsolute(a) ==
    \/ SubSeq(a, 1, Min(4, Len(a))) = <<"http", ":", "/", "/">>
    \/ SubSeq(a, 1, Min(5, Len(a))) = <<"http", "s", ":", "/", "/">>

\* C23 (SpecForm): the submission URL is the action without its fragment,
\* resolved: the landing-page URL when it is empty, itself when it is
\* absolute, the portal host and it when it starts with "/", the landing
\* URL's directory and it otherwise; the URL has no fragment.
C23_ActionResolvedWithoutFragment ==
    form_out # NotBuilt /\ form_in.page.forms # <<>> =>
        LET a == WithoutFragment(ChosenForm(form_in.page).action)
            host == <<"http", "s", ":", "/", "/", "prog.rarom.ro">>
        IN  /\ form_out.post_url =
                  IF a = <<>> THEN host \o <<"/", "rarpol", "/", "rarpol.asp">>
                  ELSE IF IsAbsolute(a) THEN a
                  ELSE IF Head(a) = "/" THEN host \o a
                  ELSE host \o <<"/", "rarpol", "/">> \o a
            /\ \A i \in 1..Len(form_out.post_url) : form_out.post_url[i] # "#"

\* the attempt counter is in 1..3, no kind of call was made more than 3
\* times, and a call that has ended has returned a record or raised a failure
AtMostThreeAttempts ==
    /\ attempt \in 1..3
    /\ Len(hist) <= 3
    /\ calls.page <= 3 /\ calls.image <= 3 /\ calls.ocr <= 3 /\ calls.post <= 3
    /\ pc = "done" <=> outcome # NoOutcome
    /\ pc = "done" =>
           \/ outcome.kind = "returned" /\ outcome.record # NoRecord /\ outcome.msg = <<>>
           \/ outcome.kind = "raised" /\ outcome.record = NoRecord /\ outcome.msg # <<>>

\* C24 (SpecLive): a fetch_itp call makes at most 3 attempts, so at most 3
\* page GETs, 3 CAPTCHA downloads, 3 OCR calls and 3 POSTs, and when every
\* network call returns it ends, with a returned record or a raised failure.
C24_BoundedAndTerminates ==
    /\ []AtMostThreeAttempts
    /\ <>[](pc = "done" /\ outcome.kind \in {"returned", "raised"})

\* a call has ended in failure after 3 page GETs, 3 downloads, 3 OCR calls
\* and 3 POSTs
C24_Witness ==
    /\ pc = "done"
    /\ outcome.kind = "raised"
    /\ attempt = 3
    /\ calls.page = 3 /\ calls.image = 3 /\ calls.ocr = 3 /\ calls.post = 3

\* C25 (Spec): fetch_itp returns a record only when the POST of the attempt
\* that ended the call was answered 200 with a body without the rejection
\* phrase, and the record is the one parsed from that body; the parser is
\* given nothing else: no body of a rejected or failed attempt, not the
\* initial empty result text.
C25_RecordOnlyFromAcceptedBody ==
    /\ outcome.kind = "returned" =>
           /\ hist # <<>> /\ posts # <<>>
           /\ LET h == hist[Len(hist)]
              IN  /\ h.end = "accepted"
                  /\ ~C5_BodyHasPhrase(h.body)
                  /\ h.body # EmptyBody
                  /\ result_text = h.body
                  /\ parsed = <<h.body>>
                  /\ outcome.record = ParseResult(vin, h.body)
                  /\ posts[Len(posts)].attempt = Len(hist)
           /\ \A i \in 1..(Len(hist) - 1) : hist[i].end # "accepted"
    /\ outcome.kind # "returned" =>
           /\ parsed = <<>>
           /\ \A i \in 1..Len(hist) : hist[i].end # "accepted"

\* after a rejected attempt and an attempt with a non-200 POST, the third
\* attempt's body was parsed and its record returned
C25_Witness ==
    /\ outcome.kind = "returned"
    /\ Len(hist) = 3
    /\ hist[1].end = "rejected"
    /\ hist[2].end = "post_status"
    /\ hist[3].body = BodyNotFound
    /\ parsed = <<BodyNotFound>>
    /\ outcome.record.status = "Not Found"

\* the portal attempts of a sequence of fetch_itp calls
RECURSIVE PortalAttempts(_)
PortalAttempts(results) ==
    IF results = <<>> THEN 0
    ELSE Head(results).portal_attempts + PortalAttempts(Tail(results))

\* C26 (SpecUpdate): one update calls fetch_itp at most 3 times; a failed
\* first or second call, whatever its cause, is followed by one sleep and the
\* next call; the update returns the first record obtained and raises the
\* third call's UpdateFailed; all in all at most 9 portal attempts are made.
C26_UpdateRetriesEveryFailure ==
    LET n == Len(upd.results)
    IN  /\ n <= 3
        /\ PortalAttempts(upd.results) <= 9
        /\ upd.sleeps <= 2 * 2
        /\ upd.sleeps = 2 * (IF upd.pc = "call" THEN n ELSE n - 1)
        /\ \A i \in 1..(n - 1) : upd.results[i].outcome.kind = "raised"
        /\ \A i \in 1..n :
               upd.results[i].outcome.kind = "raised" /\ i < 3 /\ n = i =>
                   upd.pc \in {"sleep", "call"} /\ upd.outcome = NoOutcome
        /\ upd.pc = "done" =>
               /\ upd.outcome = upd.results[n].outcome
               /\ upd.outcome.kind = "raised" =>
                      n = 3 /\ upd.outcome.type = "UpdateFailed"

\* a timeout in the third attempt of the first call, three failed attempts
\* in the second call, a failed third call: 9 portal attempts, two sleeps of 2 seconds,
\* the third failure raised
C26_Witness ==
    /\ upd.pc = "done"
    /\ Len(upd.results) = 3
    /\ upd.results[1].outcome.msg = <<"ITP check failed: ">> \o ExcText("timeout")
    /\ upd.results[2].outcome.msg =
           <<"ITP check failed: ", "Failed after 3 attempts: ", "CAPTCHA validation failed">>
    /\ PortalAttempts(upd.results) = 9
    /\ upd.sleeps = 4
    /\ upd.outcome.kind = "raised"

\* C27 (SpecHass): the check_now service is registered exactly when a VIN has
\* a coordinator stored; it is registered at most once; the stored VINs are
\* those of the entries set up and not unloaded, and with none of them left
\* the service and the domain data are gone; a check_now call refreshes the
\* coordinator stored for the requested VIN and nothing else.
C27_ServiceFollowsStoredCoordinators ==
    /\ hass.service <=> (hass.domain /\ hass.data # {})
    /\ hass.registers - hass.removes = IF hass.service THEN 1 ELSE 0
    /\ { e.vin : e \in hass.data } = hass.loaded
    /\ hass.loaded = {} => ~hass.service /\ ~hass.domain
    /\ \A i \in 1..Len(hass.calls) :
           LET call == hass.calls[i]
           IN  call.refreshed =
                   { e.coordinator : e \in { x \in call.stored : x.vin = call.vin } }

====
